---- MODULE Spec2Model ----
(***************************************************************************)
(* Myco-Barrier: SDN controllers mitigating flooding in an IoT fabric.     *)
(*                                                                         *)
(* Three families of controller are modelled, each as its own state       *)
(* machine over the variables below:                                       *)
(*   - the quarantine controllers (MycoBarrierLogic of                     *)
(*     myco_barrier_logic.py and MycoFinalController of                    *)
(*     myco_final_controller.py and of myco_controller_v2.py):             *)
(*     QuarantineSpec;                                                     *)
(*   - the orchestrator controller (MycoBarrierController of               *)
(*     myco_controller_gpt.py): Spec;                                      *)
(*   - the blacklist controller (MycoBoxController of                      *)
(*     myco_box_controller.py): BoxSpec.                                   *)
(*                                                                         *)
(* Time in the quarantine controllers.  The code reads time.time() and     *)
(* only ever compares a stored timestamp with the current reading or adds  *)
(* a constant to it, so its behaviour does not change when every timestamp *)
(* and the clock are shifted together.  Timestamps are therefore kept in   *)
(* whole seconds relative to the current instant: the clock reading is     *)
(* now = 0, and one second passing (Tick) lowers every stored timestamp   *)
(* by one.  A handler call is one step and reads one clock value.          *)
(***************************************************************************)
EXTENDS Integers, Sequences, FiniteSets, TLC

VARIABLES
    variant,                 \* which controller class is running
    start_time,              \* self.start_time
    packet_counts,           \* self.packet_counts[dpid][src] (0: no entry)
    quarantine_list,         \* self.quarantine_list, as the set of its items
    vpa_verification_queue,  \* self.vpa_verification_queue
    blacklist,               \* self.blacklist (MycoBoxController)
    mac_to_port,             \* self.mac_to_port[dpid][mac] (0: no entry)
    server_load_counter,     \* self.server_load_counter (MycoFinalController)
    sent,                    \* messages sent to switches by the last handler call
    verdict,                 \* the last packet-in and the way its handler returned
    flooder,                 \* environment: the (switch, source) pair that may flood
    other_left,              \* environment: frames left for the other pairs
    seen_now,                \* history: frames of each (switch, source) this second
    seen_before,             \* history: frames of each (switch, source) last second
    exceeded,                \* history: sources that sent more than the threshold
                             \* to one switch within one second
    released,                \* history: sources reintegrated after a quarantine
    burst_sent,              \* scenario: frames the flooding pair has sent
    datapaths,               \* self.datapaths: the registered switches
    flows,                   \* the flow table of each switch
    active_event,            \* self.active_event: <<>> (None) or <<episode>>
    event_lock,              \* self.event_lock: the semaphore's counter
    calls,                   \* the trigger_event calls in progress
    auto_end_tasks,          \* the _auto_end_event tasks spawned and not finished
    event_log,               \* the records appended to events.csv
    response,                \* the answer to the last completed request
    clock_ms,                \* int(time.time() * 1000)
    requests_left,           \* environment: requests still to come
    frames_left,             \* environment: packet-ins still to come
    cleanup_removed,         \* history: the rules the last cleanup deleted
    epoch,                   \* history: episodes that have filled the slot
    task_epoch,              \* history: the episode that spawned the last task
    ends_run,                \* history: runs of _auto_end_event so far
    _xid,                    \* self._xid: the next echo sequence id
    _echo_sent,              \* self._echo_sent, as the set of its items
    ctrl_log,                \* the samples appended to ctrl_latency.csv
    echo_out,                \* the echo requests sent by the last probe tick
    connected                \* environment: switches whose connection is open

qvars == <<variant, start_time, packet_counts, quarantine_list,
           vpa_verification_queue, blacklist, mac_to_port, server_load_counter, sent,
           verdict, flooder, other_left, seen_now, seen_before, exceeded,
           released, burst_sent>>

qonly == <<variant, start_time, packet_counts, quarantine_list,
           vpa_verification_queue, blacklist, server_load_counter, verdict, flooder,
           other_left, seen_now, seen_before, exceeded, released, burst_sent>>

ovars == <<datapaths, flows, active_event, event_lock, calls, auto_end_tasks,
           event_log, response, clock_ms, requests_left, frames_left,
           cleanup_removed, epoch, task_epoch, ends_run, _xid, _echo_sent, ctrl_log,
           echo_out, connected>>

gvars == <<epoch, task_epoch, ends_run>>
pvars == <<_xid, _echo_sent, ctrl_log, echo_out>>
evars == <<pvars, connected>>

vars == <<qvars, ovars>>

----------------------------------------------------------------------------
(* Bounds of the model *)

MaxSwitch == 2       \* switches are 1..MaxSwitch
MaxOtherFrames == 1  \* frames of a run that do not come from the flooding pair
MaxLate == 6         \* a quarantined source sends again at most this long
                     \* after its release time
MaxCount == 32       \* frames one source has counted in a window (v2, box)
ScenarioBurst == 45  \* frames of the scenario's burst
MaxScenarioFrames == 48  \* frames the scenario's source sends in all
MaxCalls == 2        \* trigger_event calls in progress at once
MaxRequests == 2     \* requests of a run
MaxFrames == 2       \* packet-ins of a run of the orchestrator
MaxClock == 2        \* the millisecond clock stops here
MaxExtraEnds == 1    \* further runs of the end routine in a run
MaxXid == 4          \* the echo loop stops before a sequence id beyond this

(* Program constants *)

DETECTION_THRESHOLD == 30
RECOVERY_TIME == 10
PENALTY == 5
WINDOW == 1
LOAD_THRESHOLD == 50
THRESHOLD == 20
MAX_DURATION == 120
\* OpenFlow 1.3 reserved values, as signed 32-bit integers
\* (0xffffffff, 0xfffffffb, 0xfffffffa, 0xfffffffd).
OFP_NO_BUFFER == -1
OFPP_FLOOD == -5
OFPP_NORMAL == -6
OFPP_CONTROLLER == -3
ETH_TYPE_LLDP == 35020
ETH_TYPE_IP == 2048

(* The current reading of time.time(); see the note on time above. *)
now == 0

Switches == 1..MaxSwitch
SERVER_MAC == "00:00:00:00:00:01"
PROXY_MAC == "00:00:00:00:00:02"
Macs == {SERVER_MAC, PROXY_MAC}
EtherTypes == {ETH_TYPE_IP, ETH_TYPE_LLDP}
ANY == ""

(* The topology: the port of switch d behind which host mac lies. *)
PortOf(d, mac) == IF mac = SERVER_MAC THEN 1 ELSE 2
Ports == {PortOf(d, m) : d \in Switches, m \in Macs}

(* A packet-in event: the switch, the frame's addresses and ethertype, the
   ingress port and the switch's buffer id.  The table-miss rule asks for
   unbuffered packet-ins (OFPCML_NO_BUFFER), a frame enters by its source's
   port, and no host sends to itself. *)
Frames == {f \in [dpid: Switches, src: Macs, dst: Macs, in_port: Ports,
                  ethertype: EtherTypes, buffer_id: {OFP_NO_BUFFER}] :
               f.dst # f.src /\ f.in_port = PortOf(f.dpid, f.src)}

----------------------------------------------------------------------------
(* Protocol messages *)

OFPMatch(in_port, eth_src, eth_dst, eth_type, ipv4_src, ipv4_dst) ==
    [in_port |-> in_port, eth_src |-> eth_src, eth_dst |-> eth_dst,
     eth_type |-> eth_type, ipv4_src |-> ipv4_src, ipv4_dst |-> ipv4_dst]
Match(in_port, eth_src, eth_dst) ==
    OFPMatch(in_port, eth_src, eth_dst, 0, ANY, ANY)

Output(port) == [kind |-> "output", field |-> ANY, port |-> port, value |-> ANY]
SetField(field, value) ==
    [kind |-> "set_field", field |-> field, port |-> 0, value |-> value]
SetEthDst(mac) == SetField("eth_dst", mac)

add_flow(dpid, priority, match, actions, buffer_id, idle, hard) ==
    [type |-> "flow_mod", dpid |-> dpid, priority |-> priority, match |-> match,
     actions |-> actions,
     buffer_id |-> IF buffer_id = 0 THEN OFP_NO_BUFFER ELSE buffer_id,
     idle_timeout |-> idle, hard_timeout |-> hard, in_port |-> 0, data |-> FALSE]

PacketOut(dpid, buffer_id, in_port, actions, data) ==
    [type |-> "packet_out", dpid |-> dpid, priority |-> 0,
     match |-> Match(0, ANY, ANY), actions |-> actions, buffer_id |-> buffer_id,
     idle_timeout |-> 0, hard_timeout |-> 0, in_port |-> in_port, data |-> data]

----------------------------------------------------------------------------
(* The quarantine table: a dict {mac: release_time}, held as the set of its
   items (the Quarantine Records). *)

InQuarantine(q, mac) == \E r \in q : r.mac = mac
ReleaseTime(q, mac) == (CHOOSE r \in q : r.mac = mac).release
DictSet(q, mac, release) ==
    {r \in q : r.mac # mac} \cup {[mac |-> mac, release |-> release]}
DictDel(q, mac) == {r \in q : r.mac # mac}

EmptyCounts == [d \in Switches |-> [m \in Macs |-> 0]]

(* How a packet-in handler returned: "ignored" (a discovery frame),
   "dropped" (the source is quarantined), "isolated" (the source crossed the
   threshold) or "forwarded". *)
Returned(outcome, f) == [outcome |-> outcome, dpid |-> f.dpid, src |-> f.src]
NoVerdict == [outcome |-> "none", dpid |-> 0, src |-> ANY]

----------------------------------------------------------------------------
(* Steps shared by the quarantine controllers *)

(* The shared counter table, reset when more than one second has passed
   since the last reset, then incremented. *)
RateReset == now - start_time > WINDOW
\* Faulty variant: one counter per source, whatever the switch.
CountsAfter_per_source(dpid, src) ==
    LET base == IF RateReset THEN EmptyCounts ELSE packet_counts
    IN  [d \in Switches |-> [base[d] EXCEPT ![src] = @ + 1]]
CountsAfter(dpid, src) ==
    LET base == IF RateReset THEN EmptyCounts ELSE packet_counts
    IN  [base EXCEPT ![dpid][src] = @ + 1]

(* L2 learning and forwarding. *)
\* Faulty variant: the port is recorded for every switch.
LearnedPorts_every_switch(f) ==
    [d \in Switches |-> [mac_to_port[d] EXCEPT ![f.src] = f.in_port]]
LearnedPorts(f) == [mac_to_port EXCEPT ![f.dpid][f.src] = f.in_port]

\* Faulty variant: the forwarding rule is installed at the drop rules' priority.
StandardForward_at_drop_priority(f) ==
    LET table == LearnedPorts(f)
        known == table[f.dpid][f.dst] # 0
        out_port == IF known THEN table[f.dpid][f.dst] ELSE OFPP_FLOOD
        actions == <<Output(out_port)>>
        match == Match(f.in_port, f.src, f.dst)
        out == PacketOut(f.dpid, f.buffer_id, f.in_port, actions,
                         f.buffer_id = OFP_NO_BUFFER)
    IN  IF known
        THEN <<add_flow(f.dpid, 100, match, actions, OFP_NO_BUFFER, 5, 0), out>>
        ELSE <<out>>
StandardForward(f) ==
    LET table == LearnedPorts(f)
        known == table[f.dpid][f.dst] # 0
        out_port == IF known THEN table[f.dpid][f.dst] ELSE OFPP_FLOOD
        actions == <<Output(out_port)>>
        match == Match(f.in_port, f.src, f.dst)
        out == PacketOut(f.dpid, f.buffer_id, f.in_port, actions,
                         f.buffer_id = OFP_NO_BUFFER)
    IN  IF known
        THEN IF f.buffer_id # OFP_NO_BUFFER
             THEN <<add_flow(f.dpid, 1, match, actions, f.buffer_id, 5, 0)>>
             ELSE <<add_flow(f.dpid, 1, match, actions, OFP_NO_BUFFER, 5, 0), out>>
        ELSE <<out>>

----------------------------------------------------------------------------
(* MycoBarrierLogic *)

\* Faulty variant: the drop rule never expires.
isolate_node_no_expiry(q, dpid, src_mac) ==
    IF InQuarantine(q, src_mac)
    THEN [quarantine_list |-> q, sent |-> <<>>]
    ELSE [quarantine_list |-> DictSet(q, src_mac, now + RECOVERY_TIME),
          sent |-> <<add_flow(dpid, 100, Match(0, src_mac, ANY), <<>>,
                              OFP_NO_BUFFER, 0, 0)>>]
isolate_node(q, dpid, src_mac) ==
    IF InQuarantine(q, src_mac)
    THEN [quarantine_list |-> q, sent |-> <<>>]
    ELSE [quarantine_list |-> DictSet(q, src_mac, now + RECOVERY_TIME),
          sent |-> <<add_flow(dpid, 100, Match(0, src_mac, ANY), <<>>,
                              OFP_NO_BUFFER, 0, RECOVERY_TIME)>>]

\* Faulty variant: the record is removed as soon as its timer has run out,
\* without the verification step.
check_reintegration_direct(src_mac, is_clean) ==
    IF ~InQuarantine(quarantine_list, src_mac)
    THEN [ret |-> TRUE, quarantine_list |-> quarantine_list,
          queue |-> vpa_verification_queue]
    ELSE IF now > ReleaseTime(quarantine_list, src_mac)
    THEN [ret |-> TRUE, quarantine_list |-> DictDel(quarantine_list, src_mac),
          queue |-> vpa_verification_queue]
    ELSE [ret |-> FALSE, quarantine_list |-> quarantine_list,
          queue |-> vpa_verification_queue]
\* Faulty variant: the verification trial never succeeds.
check_reintegration_never_clean(src_mac, is_clean) ==
    IF ~InQuarantine(quarantine_list, src_mac)
    THEN [ret |-> TRUE, quarantine_list |-> quarantine_list,
          queue |-> vpa_verification_queue]
    ELSE IF now > ReleaseTime(quarantine_list, src_mac)
    THEN IF src_mac \notin vpa_verification_queue
         THEN [ret |-> FALSE, quarantine_list |-> quarantine_list,
               queue |-> vpa_verification_queue \cup {src_mac}]
         ELSE [ret |-> FALSE,
               quarantine_list |->
                   DictSet(quarantine_list, src_mac,
                           ReleaseTime(quarantine_list, src_mac) + PENALTY),
               queue |-> vpa_verification_queue]
    ELSE [ret |-> FALSE, quarantine_list |-> quarantine_list,
          queue |-> vpa_verification_queue]
\* Faulty variant: a successful trial removes the record and leaves the
\* source in the verification queue.
check_reintegration_flag_kept(src_mac, is_clean) ==
    IF ~InQuarantine(quarantine_list, src_mac)
    THEN [ret |-> TRUE, quarantine_list |-> quarantine_list,
          queue |-> vpa_verification_queue]
    ELSE IF now > ReleaseTime(quarantine_list, src_mac)
    THEN IF src_mac \notin vpa_verification_queue
         THEN [ret |-> FALSE, quarantine_list |-> quarantine_list,
               queue |-> vpa_verification_queue \cup {src_mac}]
         ELSE IF is_clean
         THEN [ret |-> TRUE, quarantine_list |-> DictDel(quarantine_list, src_mac),
               queue |-> vpa_verification_queue]
         ELSE [ret |-> FALSE,
               quarantine_list |->
                   DictSet(quarantine_list, src_mac,
                           ReleaseTime(quarantine_list, src_mac) + PENALTY),
               queue |-> vpa_verification_queue]
    ELSE [ret |-> FALSE, quarantine_list |-> quarantine_list,
          queue |-> vpa_verification_queue]
\* Faulty variant: the frame that finds the timer run out is let through.
check_reintegration_pending_passes(src_mac, is_clean) ==
    IF ~InQuarantine(quarantine_list, src_mac)
    THEN [ret |-> TRUE, quarantine_list |-> quarantine_list,
          queue |-> vpa_verification_queue]
    ELSE IF now > ReleaseTime(quarantine_list, src_mac)
    THEN IF src_mac \notin vpa_verification_queue
         THEN [ret |-> TRUE, quarantine_list |-> quarantine_list,
               queue |-> vpa_verification_queue \cup {src_mac}]
         ELSE IF is_clean
         THEN [ret |-> TRUE, quarantine_list |-> DictDel(quarantine_list, src_mac),
               queue |-> vpa_verification_queue \ {src_mac}]
         ELSE [ret |-> FALSE,
               quarantine_list |->
                   DictSet(quarantine_list, src_mac,
                           ReleaseTime(quarantine_list, src_mac) + PENALTY),
               queue |-> vpa_verification_queue]
    ELSE [ret |-> FALSE, quarantine_list |-> quarantine_list,
          queue |-> vpa_verification_queue]
\* Faulty variants: every source is allowed; the timer is not consulted.
check_reintegration_unscreened(src_mac, is_clean) ==
    [ret |-> TRUE, quarantine_list |-> quarantine_list,
     queue |-> vpa_verification_queue]
check_reintegration_no_timer(src_mac, is_clean) ==
    IF ~InQuarantine(quarantine_list, src_mac)
    THEN [ret |-> TRUE, quarantine_list |-> quarantine_list,
          queue |-> vpa_verification_queue]
    ELSE IF src_mac \notin vpa_verification_queue
    THEN [ret |-> FALSE, quarantine_list |-> quarantine_list,
          queue |-> vpa_verification_queue \cup {src_mac}]
    ELSE IF is_clean
    THEN [ret |-> TRUE, quarantine_list |-> DictDel(quarantine_list, src_mac),
          queue |-> vpa_verification_queue \ {src_mac}]
    ELSE [ret |-> FALSE,
          quarantine_list |->
              DictSet(quarantine_list, src_mac,
                      ReleaseTime(quarantine_list, src_mac) + PENALTY),
          queue |-> vpa_verification_queue]
check_reintegration(src_mac, is_clean) ==
    IF ~InQuarantine(quarantine_list, src_mac)
    THEN [ret |-> TRUE, quarantine_list |-> quarantine_list,
          queue |-> vpa_verification_queue]
    ELSE IF now > ReleaseTime(quarantine_list, src_mac)
    THEN IF src_mac \notin vpa_verification_queue
         THEN [ret |-> FALSE, quarantine_list |-> quarantine_list,
               queue |-> vpa_verification_queue \cup {src_mac}]
         ELSE IF is_clean
         THEN [ret |-> TRUE, quarantine_list |-> DictDel(quarantine_list, src_mac),
               queue |-> vpa_verification_queue \ {src_mac}]
         ELSE [ret |-> FALSE,
               quarantine_list |->
                   DictSet(quarantine_list, src_mac,
                           ReleaseTime(quarantine_list, src_mac) + PENALTY),
               queue |-> vpa_verification_queue]
    ELSE [ret |-> FALSE, quarantine_list |-> quarantine_list,
          queue |-> vpa_verification_queue]

Logic_packet_in_handler(f, is_clean) ==
    /\ variant = "logic"
    /\ UNCHANGED <<variant, server_load_counter>>
    /\ IF f.ethertype = ETH_TYPE_LLDP
       THEN /\ sent' = <<>>
            /\ verdict' = Returned("ignored", f)
            /\ UNCHANGED <<start_time, packet_counts, quarantine_list,
                           vpa_verification_queue, mac_to_port>>
       ELSE LET cr == check_reintegration(f.src, is_clean)
                counts == CountsAfter(f.dpid, f.src)
            IN  /\ vpa_verification_queue' = cr.queue
                /\ IF ~cr.ret
                   THEN /\ quarantine_list' = cr.quarantine_list
                        /\ sent' = <<>>
                        /\ verdict' = Returned("dropped", f)
                        /\ UNCHANGED <<start_time, packet_counts, mac_to_port>>
                   ELSE /\ start_time' = IF RateReset THEN now ELSE start_time
                        /\ packet_counts' = counts
                        /\ IF counts[f.dpid][f.src] > DETECTION_THRESHOLD
                           THEN LET iso == isolate_node(cr.quarantine_list,
                                                        f.dpid, f.src)
                                IN  /\ quarantine_list' = iso.quarantine_list
                                    /\ sent' = iso.sent
                                    /\ verdict' = Returned("isolated", f)
                                    /\ UNCHANGED mac_to_port
                           ELSE /\ quarantine_list' = cr.quarantine_list
                                /\ mac_to_port' = LearnedPorts(f)
                                /\ sent' = StandardForward(f)
                                /\ verdict' = Returned("forwarded", f)

----------------------------------------------------------------------------
(* MycoFinalController (myco_final_controller.py) *)

\* Faulty variant: every source is allowed.
check_security_status_unscreened(src_mac, is_clean) ==
    [status |-> "ALLOW", quarantine_list |-> quarantine_list]
check_security_status(src_mac, is_clean) ==
    IF InQuarantine(quarantine_list, src_mac)
    THEN IF now < ReleaseTime(quarantine_list, src_mac)
         THEN [status |-> "DROP", quarantine_list |-> quarantine_list]
         ELSE IF ~is_clean
         THEN [status |-> "DROP",
               quarantine_list |->
                   DictSet(quarantine_list, src_mac,
                           ReleaseTime(quarantine_list, src_mac) + PENALTY)]
         ELSE [status |-> "REINTEGRATE",
               quarantine_list |-> DictDel(quarantine_list, src_mac)]
    ELSE [status |-> "ALLOW", quarantine_list |-> quarantine_list]

(* The load counter after the rate-limiting step and the load-balancing
   step of a forwarded frame. *)
LoadAfter(f) ==
    LET base == IF RateReset THEN 0 ELSE server_load_counter
    IN  IF LearnedPorts(f)[f.dpid][f.dst] # 0 /\ f.dst = SERVER_MAC
        THEN base + 1 ELSE base

FinalForward(f) ==
    IF /\ LearnedPorts(f)[f.dpid][f.dst] # 0
       /\ f.dst = SERVER_MAC
       /\ LoadAfter(f) > LOAD_THRESHOLD
    THEN LET actions == <<SetEthDst(PROXY_MAC), Output(OFPP_NORMAL)>>
         IN  <<add_flow(f.dpid, 50, Match(f.in_port, ANY, f.dst), actions,
                        OFP_NO_BUFFER, 1, 1),
               PacketOut(f.dpid, f.buffer_id, f.in_port, actions, TRUE)>>
    ELSE StandardForward(f)

Final_packet_in_handler(f, is_clean) ==
    /\ variant = "final"
    /\ UNCHANGED <<variant, vpa_verification_queue>>
    /\ IF f.ethertype = ETH_TYPE_LLDP
       THEN /\ sent' = <<>>
            /\ verdict' = Returned("ignored", f)
            /\ UNCHANGED <<start_time, packet_counts, quarantine_list,
                           mac_to_port, server_load_counter>>
       ELSE LET st == check_security_status(f.src, is_clean)
                counts == CountsAfter(f.dpid, f.src)
            IN  IF st.status = "DROP"
                THEN /\ quarantine_list' = st.quarantine_list
                     /\ sent' = <<>>
                     /\ verdict' = Returned("dropped", f)
                     /\ UNCHANGED <<start_time, packet_counts, mac_to_port,
                                    server_load_counter>>
                ELSE /\ start_time' = IF RateReset THEN now ELSE start_time
                     /\ packet_counts' = counts
                     /\ IF counts[f.dpid][f.src] > DETECTION_THRESHOLD
                        THEN /\ quarantine_list' =
                                    DictSet(st.quarantine_list, f.src,
                                            now + RECOVERY_TIME)
                             /\ sent' = <<add_flow(f.dpid, 100,
                                                   Match(0, f.src, ANY), <<>>,
                                                   OFP_NO_BUFFER, 0,
                                                   RECOVERY_TIME)>>
                             /\ server_load_counter' =
                                    IF RateReset THEN 0 ELSE server_load_counter
                             /\ verdict' = Returned("isolated", f)
                             /\ UNCHANGED mac_to_port
                        ELSE /\ quarantine_list' = st.quarantine_list
                             /\ mac_to_port' = LearnedPorts(f)
                             /\ server_load_counter' = LoadAfter(f)
                             /\ sent' = FinalForward(f)
                             /\ verdict' = Returned("forwarded", f)

----------------------------------------------------------------------------
(* MycoFinalController of myco_controller_v2.py, in the modes SCOUT and BOX,
   the two that call check_rate_limit.  It keeps no quarantine table, so the
   count of a flooding source keeps growing within a window: MaxCount caps
   it. *)

check_rate_limit(dpid, src) ==
    [counts |-> CountsAfter(dpid, src),
     ret |-> CountsAfter(dpid, src)[dpid][src] > 30]

V2_packet_in_handler(f) ==
    /\ variant = "v2"
    /\ UNCHANGED <<variant, quarantine_list, vpa_verification_queue,
                   server_load_counter>>
    /\ IF f.ethertype = ETH_TYPE_LLDP
       THEN /\ sent' = <<>>
            /\ verdict' = Returned("ignored", f)
            /\ UNCHANGED <<start_time, packet_counts, mac_to_port>>
       ELSE LET rl == check_rate_limit(f.dpid, f.src)
            IN  /\ rl.counts[f.dpid][f.src] <= MaxCount
                /\ mac_to_port' = LearnedPorts(f)
                /\ start_time' = IF RateReset THEN now ELSE start_time
                /\ packet_counts' = rl.counts
                /\ IF rl.ret
                   THEN /\ sent' = <<add_flow(f.dpid, 100, Match(0, f.src, ANY),
                                              <<>>, OFP_NO_BUFFER, 0, 10)>>
                        /\ verdict' = Returned("isolated", f)
                   ELSE LET out_port ==
                                IF mac_to_port'[f.dpid][f.dst] # 0
                                THEN mac_to_port'[f.dpid][f.dst] ELSE OFPP_FLOOD
                        IN  /\ sent' = <<PacketOut(f.dpid, f.buffer_id, f.in_port,
                                                   <<Output(out_port)>>,
                                                   f.buffer_id = OFP_NO_BUFFER)>>
                            /\ verdict' = Returned("forwarded", f)

----------------------------------------------------------------------------
(* The environment of the quarantine controllers: the clock and the frames *)

(* One second passes. *)
Tick ==
    /\ \A r \in quarantine_list : r.release > now - MaxLate
    /\ start_time' = IF RateReset THEN start_time ELSE start_time - 1
    /\ quarantine_list' =
           {[mac |-> r.mac, release |-> r.release - 1] : r \in quarantine_list}
    /\ seen_before' = seen_now
    /\ seen_now' = EmptyCounts
    /\ UNCHANGED <<variant, packet_counts, vpa_verification_queue, mac_to_port,
                   server_load_counter, sent, verdict, flooder, other_left,
                   exceeded, released, blacklist>>
    /\ UNCHANGED ovars

(* The history of arrivals.  seen_before and seen_now count the frames of
   each (switch, source) that arrived one second ago and at the current
   instant, that is, within the last second; a source that sent more than
   the threshold to one switch within one second is recorded in exceeded,
   and its frames are not counted any further. *)
Observed(f) ==
    IF f.ethertype = ETH_TYPE_LLDP \/ f.src \in exceeded
    THEN UNCHANGED <<seen_now, seen_before, exceeded>>
    ELSE IF seen_before[f.dpid][f.src] + seen_now[f.dpid][f.src] + 1
                > DETECTION_THRESHOLD
    THEN /\ exceeded' = exceeded \cup {f.src}
         /\ seen_now' = [d \in Switches |-> [seen_now[d] EXCEPT ![f.src] = 0]]
         /\ seen_before' =
                [d \in Switches |-> [seen_before[d] EXCEPT ![f.src] = 0]]
    ELSE /\ seen_now' = [seen_now EXCEPT ![f.dpid][f.src] = @ + 1]
         /\ UNCHANGED <<seen_before, exceeded>>

(* The environment delivers one packet-in: any frame of the flooding pair, or
   one of the few frames of the other pairs. *)
Arrives(f) ==
    /\ UNCHANGED flooder
    /\ IF <<f.dpid, f.src>> = flooder
       THEN UNCHANGED other_left
       ELSE other_left > 0 /\ other_left' = other_left - 1
    /\ Observed(f)

PacketIn(f, is_clean) ==
    /\ Arrives(f)
    /\ UNCHANGED <<ovars, blacklist>>
    /\ \/ Logic_packet_in_handler(f, is_clean)
       \/ Final_packet_in_handler(f, is_clean)
       \/ V2_packet_in_handler(f) /\ is_clean
    /\ released' = released \cup
           {m \in Macs : /\ InQuarantine(quarantine_list, m)
                         /\ ~InQuarantine(quarantine_list', m)}

----------------------------------------------------------------------------
(* MycoBarrierController (myco_controller_gpt.py): the orchestrator *)

(* The topology mapping loaded at start: two hosts, and one proxy attached
   to the first host's switch. *)
HOST2_MAC == "00:00:00:00:00:07"
Hosts == {[ip |-> "10.0.0.1", mac |-> SERVER_MAC, dpid |-> 1, port |-> 1],
          [ip |-> "10.0.0.7", mac |-> HOST2_MAC, dpid |-> MaxSwitch, port |-> 1]}
Proxies == {[ip |-> "10.0.0.2", mac |-> PROXY_MAC, dpid |-> 1, port |-> 2]}

host_by_ip(ip) == CHOOSE h \in Hosts : h.ip = ip
KnownIps == {h.ip : h \in Hosts}
proxies_by_dpid(dpid) == {x \in Proxies : x.dpid = dpid}

Strategies == {"myco_scout", "myco_box", "myco_swap"}

(* The bodies of the requests sent to POST /myco/event: the well-formed ones,
   those with one field wrong, and those post_event cannot read.  form is
   "object" for a JSON object with a numeric duration_s, "text_duration" for
   an object whose duration_s is a string that is not a number, and "list"
   for a JSON value that is not an object. *)
ValidBodies == [strategy: Strategies, target_ip: KnownIps,
                duration_s: {MAX_DURATION}, form: {"object"}]
UnreadableBodies ==
    {[b EXCEPT !.form = fm] : b \in ValidBodies, fm \in {"text_duration", "list"}}
Bodies ==
    ValidBodies
    \cup UnreadableBodies
    \cup {[b EXCEPT !.strategy = "myco_none"] : b \in ValidBodies}
    \cup {[b EXCEPT !.target_ip = t] : b \in ValidBodies, t \in {"", "10.0.0.99"}}
    \cup {[b EXCEPT !.duration_s = x] :
              b \in ValidBodies, x \in {0, MAX_DURATION + 1}}

Declined(msg) == [status |-> 400, ok |-> FALSE, msg |-> msg]
Accepted == [status |-> 200, ok |-> TRUE, msg |-> "Event started"]
InternalError == [status |-> 500, ok |-> FALSE, msg |-> "exception"]
NoResponse == [status |-> 0, ok |-> FALSE, msg |-> ""]

(* Reading the fields of the body: body.get raises AttributeError when the
   body is not an object, and float() raises ValueError when duration_s is
   not a number.  Neither is caught. *)
post_event_raises(body) == body.form # "object"

(* post_event's checks of the body; "" when the body passes. *)
\* Faulty variant: the duration is not checked.
post_event_error_any_duration(body) ==
    IF body.strategy \notin Strategies THEN "Invalid strategy"
    ELSE IF body.target_ip = "" THEN "Missing target_ip"
    ELSE ""
post_event_error(body) ==
    IF body.strategy \notin Strategies THEN "Invalid strategy"
    ELSE IF body.target_ip = "" THEN "Missing target_ip"
    ELSE IF body.duration_s <= 0 \/ body.duration_s > MAX_DURATION
    THEN "Invalid duration_s"
    ELSE ""

IdleCall == [pc |-> "idle", strategy |-> "", target_ip |-> "", duration_s |-> 0]
CallIds == 1..MaxCalls

(* Flow tables.  A flow-mod ADD replaces the rule with the same priority and
   match; a DELETE with a full cookie mask and an empty match removes the
   rules carrying that cookie. *)
Rule(priority, match, actions, cookie, idle, hard) ==
    [priority |-> priority, match |-> match, actions |-> actions,
     cookie |-> cookie, idle_timeout |-> idle, hard_timeout |-> hard]
FlowAdd(table, rule) ==
    {r \in table : ~(r.priority = rule.priority /\ r.match = rule.match)}
        \cup {rule}
_add_flow(table, priority, match, actions, idle) ==
    FlowAdd(table, Rule(priority, match, actions, 0, idle, 0))
\* Faulty variant: the rule is sent without the episode's cookie.
_flow_with_cookie_untagged(table, cookie, priority, match, actions) ==
    FlowAdd(table, Rule(priority, match, actions, 0, 0, 0))
_flow_with_cookie(table, cookie, priority, match, actions) ==
    FlowAdd(table, Rule(priority, match, actions, cookie, 0, 0))
\* Faulty variant: a DELETE without the cookie mask empties the table.
_del_flows_by_cookie_unmasked(table, cookie) == {}
_del_flows_by_cookie(table, cookie) == {r \in table : r.cookie # cookie}

NoFlows == [d \in Switches |-> {}]

(* switch_features_handler: register the switch, install the table-miss
   rule. *)
\* Faulty variant: the rule is installed, the switch is not registered.
switch_features_handler_unregistered(d) ==
    /\ flows' = [flows EXCEPT ![d] =
                    _add_flow(@, 0, OFPMatch(0, ANY, ANY, 0, ANY, ANY),
                              <<Output(OFPP_CONTROLLER)>>, 0)]
    /\ sent' = <<>>
    /\ UNCHANGED <<mac_to_port, datapaths, active_event, event_lock, calls,
                   auto_end_tasks, event_log, response, clock_ms, requests_left,
                   frames_left, cleanup_removed>>
    /\ connected' = connected \cup {d}
    /\ UNCHANGED <<qonly, gvars, pvars>>
switch_features_handler(d) ==
    /\ datapaths' = datapaths \cup {d}
    /\ flows' = [flows EXCEPT ![d] =
                    _add_flow(@, 0, OFPMatch(0, ANY, ANY, 0, ANY, ANY),
                              <<Output(OFPP_CONTROLLER)>>, 0)]
    /\ sent' = <<>>
    /\ UNCHANGED <<mac_to_port, active_event, event_lock, calls, auto_end_tasks,
                   event_log, response, clock_ms, requests_left, frames_left,
                   cleanup_removed>>
    /\ connected' = connected \cup {d}
    /\ UNCHANGED <<qonly, gvars, pvars>>

(* packet_in: a frame without an Ethernet header is ignored; an ARP frame
   goes to _handle_arp, which installs no rule and learns nothing; any other
   frame, a topology-discovery (LLDP) frame included, is learned and
   forwarded: the handler does not look at the ethertype. *)
OrchFrames ==
    {f \in [dpid: Switches, src: Macs, dst: Macs, in_port: {1, 2},
            kind: {"ip", "lldp", "arp", "none"}, arp_op: {"request", "reply", ""},
            arp_tpa: KnownIps \cup {""}] :
        IF f.kind = "arp" THEN f.arp_op # "" /\ f.arp_tpa # ""
        ELSE f.arp_op = "" /\ f.arp_tpa = ""}

(* _handle_arp: the messages it sends for the ARP frame f.  It returns at
   once unless f is a request, an episode is active, the request asks for the
   target's address and the episode has a decoy MAC.  Past these tests it
   builds the Ethernet header of the reply with ether.ETH_TYPE_ARP, and the
   module never imports ether: the NameError ends the handler before any
   PacketOut is built. *)
ArpForTarget(f) ==
    /\ f.arp_op = "request"
    /\ active_event # <<>>
    /\ f.arp_tpa = active_event[1].target_ip
    /\ active_event[1].proxy_mac # ""
_handle_arp(f) ==
    IF ~ArpForTarget(f) THEN <<>>
    ELSE <<>>   \* NameError at ether.ETH_TYPE_ARP

\* Faulty variant: the handler takes the episode lock for the length of
\* the call.
packet_in_locked(f) ==
    /\ f.dpid \in datapaths
    /\ f.dst # f.src
    /\ f.in_port = PortOf(f.dpid, f.src)
    /\ frames_left > 0
    /\ event_lock > 0
    /\ frames_left' = frames_left - 1
    /\ UNCHANGED <<datapaths, active_event, event_lock, calls, auto_end_tasks,
                   event_log, response, clock_ms, requests_left,
                   cleanup_removed>>
    /\ IF f.kind = "none"
       THEN /\ sent' = <<>>
            /\ UNCHANGED <<mac_to_port, flows>>
       ELSE IF f.kind = "arp"
       THEN /\ sent' = _handle_arp(f)
            /\ UNCHANGED <<mac_to_port, flows>>
       ELSE LET table == LearnedPorts(f)
                known == table[f.dpid][f.dst] # 0
                out_port == IF known THEN table[f.dpid][f.dst] ELSE OFPP_FLOOD
                actions == <<Output(out_port)>>
                match == Match(f.in_port, f.src, f.dst)
            IN  /\ mac_to_port' = table
                /\ flows' = IF known
                            THEN [flows EXCEPT ![f.dpid] =
                                     _add_flow(@, 10, match, actions, 30)]
                            ELSE flows
                /\ sent' = <<PacketOut(f.dpid, OFP_NO_BUFFER, f.in_port,
                                       actions, TRUE)>>
    /\ UNCHANGED <<qonly, gvars, evars>>
packet_in(f) ==
    /\ f.dpid \in datapaths
    /\ f.dst # f.src
    /\ f.in_port = PortOf(f.dpid, f.src)
    /\ frames_left > 0
    /\ frames_left' = frames_left - 1
    /\ UNCHANGED <<datapaths, active_event, event_lock, calls, auto_end_tasks,
                   event_log, response, clock_ms, requests_left,
                   cleanup_removed>>
    /\ IF f.kind = "none"
       THEN /\ sent' = <<>>
            /\ UNCHANGED <<mac_to_port, flows>>
       ELSE IF f.kind = "arp"
       THEN /\ sent' = _handle_arp(f)
            /\ UNCHANGED <<mac_to_port, flows>>
       ELSE LET table == LearnedPorts(f)
                known == table[f.dpid][f.dst] # 0
                out_port == IF known THEN table[f.dpid][f.dst] ELSE OFPP_FLOOD
                actions == <<Output(out_port)>>
                match == Match(f.in_port, f.src, f.dst)
            IN  /\ mac_to_port' = table
                /\ flows' = IF known
                            THEN [flows EXCEPT ![f.dpid] =
                                     _add_flow(@, 10, match, actions, 30)]
                            ELSE flows
                /\ sent' = <<PacketOut(f.dpid, OFP_NO_BUFFER, f.in_port,
                                       actions, TRUE)>>
    /\ UNCHANGED <<qonly, gvars, evars>>

(* A rule with an idle or hard timeout may expire on its switch. *)
FlowExpire(d, r) ==
    /\ r \in flows[d]
    /\ r.idle_timeout > 0 \/ r.hard_timeout > 0
    /\ flows' = [flows EXCEPT ![d] = @ \ {r}]
    /\ UNCHANGED <<mac_to_port, sent, datapaths, active_event, event_lock, calls,
                   auto_end_tasks, event_log, response, clock_ms, requests_left,
                   frames_left, cleanup_removed>>
    /\ UNCHANGED <<qonly, gvars, evars>>

(* The millisecond clock advances. *)
ClockTick ==
    /\ clock_ms < MaxClock
    /\ clock_ms' = clock_ms + 1
    /\ UNCHANGED <<mac_to_port, sent, datapaths, flows, active_event, event_lock,
                   calls, auto_end_tasks, event_log, response, requests_left,
                   frames_left, cleanup_removed>>
    /\ UNCHANGED <<qonly, gvars, evars>>

(* The strategies' start routines: the flow tables after the rules of the
   episode e are installed. *)
\* Faulty variant: only the rule for traffic towards the target.
_myco_scout_isolate_inbound_only(e) ==
    [d \in Switches |->
        IF d \in datapaths
        THEN _flow_with_cookie(flows[d], e.cookie, 300,
                 OFPMatch(0, ANY, ANY, ETH_TYPE_IP, ANY, e.target_ip), <<>>)
        ELSE flows[d]]
_myco_scout_isolate(e) ==
    [d \in Switches |->
        IF d \in datapaths
        THEN _flow_with_cookie(
                 _flow_with_cookie(flows[d], e.cookie, 300,
                     OFPMatch(0, ANY, ANY, ETH_TYPE_IP, ANY, e.target_ip), <<>>),
                 e.cookie, 300,
                 OFPMatch(0, ANY, ANY, ETH_TYPE_IP, e.target_ip, ANY), <<>>)
        ELSE flows[d]]

\* Faulty variant: the rule for the decoy's return traffic is installed too,
\* with its empty action list.
_myco_box_quarantine_with_return_rule(e) ==
    IF e.target_dpid \notin datapaths THEN flows
    ELSE [flows EXCEPT ![e.target_dpid] =
             _flow_with_cookie(
                 _flow_with_cookie(@, e.cookie, 320,
                     OFPMatch(0, ANY, ANY, ETH_TYPE_IP, ANY, e.target_ip),
                     <<SetField("ipv4_dst", e.proxy_ip),
                       SetField("eth_dst", e.proxy_mac),
                       Output(e.proxy_port)>>),
                 e.cookie, 320,
                 OFPMatch(0, ANY, ANY, ETH_TYPE_IP, e.proxy_ip, ANY), <<>>)]
_myco_box_quarantine(e) ==
    IF e.target_dpid \notin datapaths THEN flows
    ELSE [flows EXCEPT ![e.target_dpid] =
             _flow_with_cookie(@, e.cookie, 320,
                 OFPMatch(0, ANY, ANY, ETH_TYPE_IP, ANY, e.target_ip),
                 <<SetField("ipv4_dst", e.proxy_ip),
                   SetField("eth_dst", e.proxy_mac),
                   Output(e.proxy_port)>>)]

\* Faulty variant: the outbound rule matches the decoy's address on any port.
_myco_swap_replace_any_port(e) ==
    IF e.target_dpid \notin datapaths THEN flows
    ELSE [flows EXCEPT ![e.target_dpid] =
             _flow_with_cookie(
                 _flow_with_cookie(@, e.cookie, 340,
                     OFPMatch(0, ANY, ANY, ETH_TYPE_IP, ANY, e.target_ip),
                     <<SetField("ipv4_dst", e.proxy_ip),
                       SetField("eth_dst", e.proxy_mac),
                       Output(e.proxy_port)>>),
                 e.cookie, 340,
                 OFPMatch(0, ANY, ANY, ETH_TYPE_IP, e.proxy_ip, ANY),
                 <<SetField("ipv4_src", e.target_ip),
                   SetField("eth_src", e.target_mac),
                   Output(OFPP_CONTROLLER)>>)]
_myco_swap_replace(e) ==
    IF e.target_dpid \notin datapaths THEN flows
    ELSE [flows EXCEPT ![e.target_dpid] =
             _flow_with_cookie(
                 _flow_with_cookie(@, e.cookie, 340,
                     OFPMatch(0, ANY, ANY, ETH_TYPE_IP, ANY, e.target_ip),
                     <<SetField("ipv4_dst", e.proxy_ip),
                       SetField("eth_dst", e.proxy_mac),
                       Output(e.proxy_port)>>),
                 e.cookie, 340,
                 OFPMatch(e.proxy_port, ANY, ANY, ETH_TYPE_IP, e.proxy_ip, ANY),
                 <<SetField("ipv4_src", e.target_ip),
                   SetField("eth_src", e.target_mac),
                   Output(OFPP_CONTROLLER)>>)]

_apply_strategy_start(e) ==
    IF e.strategy = "myco_scout" THEN _myco_scout_isolate(e)
    ELSE IF e.strategy = "myco_box" THEN _myco_box_quarantine(e)
    ELSE IF e.strategy = "myco_swap" THEN _myco_swap_replace(e)
    ELSE flows

(* Whether the start routine of e sends any flow-mod. *)
StartSends(e) ==
    IF e.strategy = "myco_scout" THEN datapaths # {}
    ELSE e.target_dpid \in datapaths

(* _cleanup_event: delete the flows with the episode's cookie on all
   registered switches. *)
_cleanup_event(e) ==
    [d \in Switches |->
        IF d \in datapaths THEN _del_flows_by_cookie(flows[d], e.cookie)
        ELSE flows[d]]

(* _log_event: the record appended to events.csv. *)
\* Faulty variant: the end record leaves the decoy's fields empty.
_log_event_end_without_decoy(evname, e) ==
    [event |-> evname, strategy |-> e.strategy, target_ip |-> e.target_ip,
     target_mac |-> e.target_mac, target_dpid |-> e.target_dpid,
     proxy_ip |-> IF evname = "end" THEN "" ELSE e.proxy_ip,
     proxy_mac |-> IF evname = "end" THEN "" ELSE e.proxy_mac,
     proxy_port |-> IF evname = "end" THEN 0 ELSE e.proxy_port,
     duration_s |-> e.duration_s]
_log_event(evname, e) ==
    [event |-> evname, strategy |-> e.strategy, target_ip |-> e.target_ip,
     target_mac |-> e.target_mac, target_dpid |-> e.target_dpid,
     proxy_ip |-> e.proxy_ip, proxy_mac |-> e.proxy_mac,
     proxy_port |-> e.proxy_port, duration_s |-> e.duration_s]

(* The episode trigger_event builds for a call, with proxy x (or none). *)
Episode(call, x) ==
    LET target == host_by_ip(call.target_ip)
    IN  [strategy |-> call.strategy, target_ip |-> call.target_ip,
         target_mac |-> target.mac, target_dpid |-> target.dpid,
         proxy_ip |-> x.ip, proxy_mac |-> x.mac, proxy_port |-> x.port,
         duration_s |-> call.duration_s, cookie |-> clock_ms]
NoProxy == [ip |-> "", mac |-> "", dpid |-> 0, port |-> 0]

(* A request arrives: post_event checks the body and calls trigger_event,
   which declines an unknown target and otherwise goes on to take the
   lock.  The call takes the first free slot of calls. *)
post_event(c, body) ==
    /\ calls[c].pc = "idle"
    /\ \A c2 \in 1..(c - 1) : calls[c2].pc # "idle"
    /\ requests_left > 0
    /\ requests_left' = requests_left - 1
    /\ UNCHANGED <<mac_to_port, sent, datapaths, flows, active_event, event_lock,
                   auto_end_tasks, event_log, clock_ms, frames_left,
                   cleanup_removed>>
    /\ IF post_event_raises(body)
       THEN /\ response' = InternalError
            /\ UNCHANGED calls
       ELSE IF post_event_error(body) # ""
       THEN /\ response' = Declined(post_event_error(body))
            /\ UNCHANGED calls
       ELSE IF body.target_ip \notin KnownIps
       THEN /\ response' = Declined("Unknown target_ip")
            /\ UNCHANGED calls
       ELSE /\ calls' = [calls EXCEPT ![c] =
                            [pc |-> "waiting", strategy |-> body.strategy,
                             target_ip |-> body.target_ip,
                             duration_s |-> body.duration_s]]
            /\ UNCHANGED response
    /\ UNCHANGED <<qonly, gvars, evars>>

(* trigger_event takes the lock and tests the active-episode slot. *)
\* Faulty variant: the slot is tested without taking the lock.
trigger_event_enter_unlocked(c) ==
    /\ calls[c].pc = "waiting"
    /\ UNCHANGED <<mac_to_port, sent, datapaths, flows, active_event,
                   auto_end_tasks, event_log, clock_ms, requests_left,
                   frames_left, cleanup_removed>>
    /\ IF active_event # <<>>
       THEN /\ response' = Declined("Another event is active")
            /\ calls' = [calls EXCEPT ![c] = IdleCall]
            /\ UNCHANGED event_lock
       ELSE /\ calls' = [calls EXCEPT ![c].pc = "critical"]
            /\ event_lock' = event_lock - 1
            /\ UNCHANGED response
    /\ UNCHANGED <<qonly, gvars, evars>>
trigger_event_enter(c) ==
    /\ calls[c].pc = "waiting"
    /\ event_lock > 0
    /\ UNCHANGED <<mac_to_port, sent, datapaths, flows, active_event,
                   auto_end_tasks, event_log, clock_ms, requests_left,
                   frames_left, cleanup_removed>>
    /\ IF active_event # <<>>
       THEN /\ response' = Declined("Another event is active")
            /\ calls' = [calls EXCEPT ![c] = IdleCall]
            /\ UNCHANGED event_lock
       ELSE /\ calls' = [calls EXCEPT ![c].pc = "critical"]
            /\ event_lock' = event_lock - 1
            /\ UNCHANGED response
    /\ UNCHANGED <<qonly, gvars, evars>>

(* trigger_event, holding the lock: resolve the proxy, fill the slot, log the
   start, install the rules, spawn the auto-end task, release the lock.
   fault: "log" when appending to events.csv raises, "apply" when the first
   send of the start routine raises, "none" otherwise. *)
trigger_event_start(c, fault) ==
    /\ calls[c].pc = "critical"
    /\ calls' = [calls EXCEPT ![c] = IdleCall]
    /\ event_lock' = event_lock + 1
    /\ UNCHANGED <<mac_to_port, sent, datapaths, clock_ms, requests_left,
                   frames_left, cleanup_removed>>
    /\ LET call == calls[c]
           needs_proxy == call.strategy \in {"myco_box", "myco_swap"}
           candidates == proxies_by_dpid(host_by_ip(call.target_ip).dpid)
       IN  IF needs_proxy /\ candidates = {}
           THEN /\ response' = Declined("No proxy attached to target edge switch")
                /\ UNCHANGED <<flows, active_event, auto_end_tasks, event_log,
                               gvars>>
           ELSE LET x == IF needs_proxy THEN CHOOSE y \in candidates : TRUE
                         ELSE NoProxy
                    e == Episode(call, x)
                IN  /\ fault = "apply" => StartSends(e)
                    /\ active_event' = <<e>>
                    /\ epoch' = epoch + 1
                    /\ task_epoch' = IF fault = "none" THEN epoch + 1
                                     ELSE task_epoch
                    /\ UNCHANGED ends_run
                    /\ event_log' = IF fault = "log" THEN event_log
                                    ELSE Append(event_log, _log_event("start", e))
                    /\ flows' = IF fault = "none" THEN _apply_strategy_start(e)
                                ELSE flows
                    /\ auto_end_tasks' = IF fault = "none" THEN auto_end_tasks + 1
                                         ELSE auto_end_tasks
                    /\ response' = IF fault = "none" THEN Accepted
                                   ELSE InternalError
    /\ UNCHANGED <<qonly, evars>>

(* _auto_end_event, once its sleep is over: take the lock, and if an episode
   is active clean up, log the end and clear the slot.  fault: "log" when
   appending to events.csv raises. *)
\* Faulty variant: the slot is not tested, and the end is logged even when
\* no episode is active.
_auto_end_event_untested(fault) ==
    /\ auto_end_tasks > 0
    /\ event_lock > 0
    /\ auto_end_tasks' = auto_end_tasks - 1
    /\ ends_run' = ends_run + 1
    /\ UNCHANGED <<epoch, task_epoch>>
    /\ UNCHANGED <<mac_to_port, sent, datapaths, event_lock, calls, response,
                   clock_ms, requests_left, frames_left>>
    /\ IF active_event = <<>>
       THEN /\ event_log' = Append(event_log, [event |-> "end"])
            /\ UNCHANGED <<flows, active_event, cleanup_removed>>
       ELSE /\ flows' = _cleanup_event(active_event[1])
            /\ cleanup_removed' =
                   UNION {flows[d] \ flows'[d] : d \in Switches}
            /\ event_log' = IF fault = "log" THEN event_log
                            ELSE Append(event_log,
                                        _log_event("end", active_event[1]))
            /\ active_event' = IF fault = "log" THEN active_event ELSE <<>>
    /\ UNCHANGED <<qonly, evars>>
\* Faulty variant: the timer stays armed after it has fired.
_auto_end_event_task_kept(fault) ==
    /\ auto_end_tasks > 0
    /\ event_lock > 0
    /\ auto_end_tasks' = auto_end_tasks
    /\ ends_run' = ends_run + 1
    /\ UNCHANGED <<epoch, task_epoch>>
    /\ UNCHANGED <<mac_to_port, sent, datapaths, event_lock, calls, response,
                   clock_ms, requests_left, frames_left>>
    /\ IF active_event = <<>>
       THEN UNCHANGED <<flows, event_log, active_event, cleanup_removed>>
       ELSE /\ flows' = _cleanup_event(active_event[1])
            /\ cleanup_removed' =
                   UNION {flows[d] \ flows'[d] : d \in Switches}
            /\ event_log' = IF fault = "log" THEN event_log
                            ELSE Append(event_log,
                                        _log_event("end", active_event[1]))
            /\ active_event' = IF fault = "log" THEN active_event ELSE <<>>
    /\ UNCHANGED <<qonly, evars>>
_auto_end_event(fault) ==
    /\ auto_end_tasks > 0
    /\ event_lock > 0
    /\ auto_end_tasks' = auto_end_tasks - 1
    /\ ends_run' = ends_run + 1
    /\ UNCHANGED <<epoch, task_epoch>>
    /\ UNCHANGED <<mac_to_port, sent, datapaths, event_lock, calls, response,
                   clock_ms, requests_left, frames_left>>
    /\ IF active_event = <<>>
       THEN UNCHANGED <<flows, event_log, active_event, cleanup_removed>>
       ELSE /\ flows' = _cleanup_event(active_event[1])
            /\ cleanup_removed' =
                   UNION {flows[d] \ flows'[d] : d \in Switches}
            /\ event_log' = IF fault = "log" THEN event_log
                            ELSE Append(event_log,
                                        _log_event("end", active_event[1]))
            /\ active_event' = IF fault = "log" THEN active_event ELSE <<>>
    /\ UNCHANGED <<qonly, evars>>

(* A second run of _auto_end_event for the episode that is active: the
   routine is started once more while the first is asleep. *)
second_auto_end ==
    /\ active_event # <<>>
    /\ auto_end_tasks > 0
    /\ ends_run + auto_end_tasks <= MaxExtraEnds + 1
    /\ auto_end_tasks' = auto_end_tasks + 1
    /\ UNCHANGED <<mac_to_port, sent, datapaths, flows, active_event, event_lock,
                   calls, event_log, response, clock_ms, requests_left,
                   frames_left, cleanup_removed>>
    /\ UNCHANGED <<qonly, gvars, evars>>

(* Control-plane latency.  str() of a sequence id and int() of the bytes a
   reply carries; int() raises on bytes that are not a decimal number. *)
Decimal == <<"1", "2", "3", "4", "5", "6", "7", "8">>
str(n) == Decimal[n]
int_raises(data) == \A n \in 1..Len(Decimal) : Decimal[n] # data
int(data) == CHOOSE n \in 1..Len(Decimal) : Decimal[n] = data
EchoData == {Decimal[n] : n \in 1..(MaxXid + 1)} \cup {"", "x"}

EchoKeys(table) == {<<e.dpid, e.xid>> : e \in table}
EchoSet(table, dpid, xid, t) ==
    {e \in table : <<e.dpid, e.xid>> # <<dpid, xid>>}
        \cup {[dpid |-> dpid, xid |-> xid, t |-> t]}
EchoRequest(dpid, xid) == [type |-> "echo_request", dpid |-> dpid, data |-> str(xid)]

(* _send_echo for every switch of a tick: the switch at position pos[d] of the
   loop gets the id _xid + pos[d] - 1. *)
RECURSIVE _send_echo(_, _, _)
_send_echo(table, todo, pos) ==
    IF todo = {} THEN table
    ELSE LET d == CHOOSE x \in todo : \A y \in todo : pos[x] <= pos[y]
         IN  _send_echo(EchoSet(table, d, _xid + pos[d] - 1, clock_ms),
                        todo \ {d}, pos)

(* The orders in which a tick may walk the registered switches. *)
EchoOrders ==
    {pos \in [datapaths -> 1..Cardinality(datapaths)] :
        \A x, y \in datapaths : pos[x] = pos[y] => x = y}

(* One tick of _echo_loop: a probe to every registered switch. *)
_echo_loop ==
    /\ datapaths # {}
    /\ _xid + Cardinality(datapaths) - 1 <= MaxXid
    /\ \E pos \in EchoOrders :
           /\ _echo_sent' = _send_echo(_echo_sent, datapaths, pos)
           /\ echo_out' = {EchoRequest(d, _xid + pos[d] - 1) : d \in datapaths}
    /\ _xid' = _xid + Cardinality(datapaths)
    /\ UNCHANGED <<ctrl_log, connected>>
    /\ UNCHANGED <<mac_to_port, sent, datapaths, flows, active_event, event_lock,
                   calls, auto_end_tasks, event_log, response, clock_ms,
                   requests_left, frames_left, cleanup_removed>>
    /\ UNCHANGED <<qonly, gvars>>

(* echo_reply: a reply from switch d carrying data.  A sample is the line
   appended to ctrl_latency.csv; its xid is history, not part of the line. *)
Sample(dpid, rtt_ms, xid) == [dpid |-> dpid, rtt_ms |-> rtt_ms, xid |-> xid]
\* Faulty variant: the pending entry is read, not popped.
echo_reply_keeps_entry(d, data) ==
    /\ d \in datapaths
    /\ IF int_raises(data) THEN UNCHANGED <<_echo_sent, ctrl_log>>
       ELSE IF <<d, int(data)>> \notin EchoKeys(_echo_sent)
       THEN UNCHANGED <<_echo_sent, ctrl_log>>
       ELSE LET e == CHOOSE x \in _echo_sent : x.dpid = d /\ x.xid = int(data)
            IN  /\ _echo_sent' = _echo_sent
                /\ ctrl_log' = Append(ctrl_log,
                                      Sample(d, clock_ms - e.t, e.xid))
    /\ UNCHANGED <<_xid, echo_out, connected>>
    /\ UNCHANGED <<mac_to_port, sent, datapaths, flows, active_event, event_lock,
                   calls, auto_end_tasks, event_log, response, clock_ms,
                   requests_left, frames_left, cleanup_removed>>
    /\ UNCHANGED <<qonly, gvars>>
\* Faulty variant: the send time is subtracted the wrong way round.
echo_reply_swapped(d, data) ==
    /\ d \in datapaths
    /\ IF int_raises(data) THEN UNCHANGED <<_echo_sent, ctrl_log>>
       ELSE IF <<d, int(data)>> \notin EchoKeys(_echo_sent)
       THEN UNCHANGED <<_echo_sent, ctrl_log>>
       ELSE LET e == CHOOSE x \in _echo_sent : x.dpid = d /\ x.xid = int(data)
            IN  /\ _echo_sent' = _echo_sent \ {e}
                /\ ctrl_log' = Append(ctrl_log,
                                      Sample(d, e.t - clock_ms, e.xid))
    /\ UNCHANGED <<_xid, echo_out, connected>>
    /\ UNCHANGED <<mac_to_port, sent, datapaths, flows, active_event, event_lock,
                   calls, auto_end_tasks, event_log, response, clock_ms,
                   requests_left, frames_left, cleanup_removed>>
    /\ UNCHANGED <<qonly, gvars>>
echo_reply(d, data) ==
    /\ d \in datapaths
    /\ IF int_raises(data) THEN UNCHANGED <<_echo_sent, ctrl_log>>
       ELSE IF <<d, int(data)>> \notin EchoKeys(_echo_sent)
       THEN UNCHANGED <<_echo_sent, ctrl_log>>
       ELSE LET e == CHOOSE x \in _echo_sent : x.dpid = d /\ x.xid = int(data)
            IN  /\ _echo_sent' = _echo_sent \ {e}
                /\ ctrl_log' = Append(ctrl_log,
                                      Sample(d, clock_ms - e.t, e.xid))
    /\ UNCHANGED <<_xid, echo_out, connected>>
    /\ UNCHANGED <<mac_to_port, sent, datapaths, flows, active_event, event_lock,
                   calls, auto_end_tasks, event_log, response, clock_ms,
                   requests_left, frames_left, cleanup_removed>>
    /\ UNCHANGED <<qonly, gvars>>

(* The control connection of a switch closes.  The controller has no handler
   for the event: nothing of its state changes. *)
connection_closed(d) ==
    /\ d \in connected
    /\ connected' = connected \ {d}
    /\ UNCHANGED <<mac_to_port, sent, datapaths, flows, active_event, event_lock,
                   calls, auto_end_tasks, event_log, response, clock_ms,
                   requests_left, frames_left, cleanup_removed>>
    /\ UNCHANGED <<qonly, gvars, pvars>>

OrchStart ==
    /\ datapaths = {}
    /\ flows = NoFlows
    /\ active_event = <<>>
    /\ event_lock = 1
    /\ calls = [c \in CallIds |-> IdleCall]
    /\ auto_end_tasks = 0
    /\ event_log = <<>>
    /\ response = NoResponse
    /\ clock_ms = 1
    /\ requests_left = MaxRequests
    /\ frames_left = MaxFrames
    /\ cleanup_removed = {}
    /\ epoch = 0
    /\ task_epoch = 0
    /\ ends_run = 0
    /\ _xid = 1
    /\ _echo_sent = {}
    /\ ctrl_log = <<>>
    /\ echo_out = {}
    /\ connected = {}

QStart ==
    /\ start_time = now
    /\ blacklist = {}
    /\ packet_counts = EmptyCounts
    /\ quarantine_list = {}
    /\ vpa_verification_queue = {}
    /\ mac_to_port = [d \in Switches |-> [m \in Macs |-> 0]]
    /\ server_load_counter = 0
    /\ sent = <<>>
    /\ verdict = NoVerdict
    /\ released = {}
    /\ burst_sent = 0
    /\ flooder \in {1} \X Macs
    /\ other_left = MaxOtherFrames
    /\ seen_now = EmptyCounts
    /\ seen_before = EmptyCounts
    /\ exceeded = {}
    /\ OrchStart

QInit ==
    /\ variant \in {"logic", "final", "v2"}
    /\ QStart

QNext ==
    \/ Tick /\ UNCHANGED burst_sent
    \/ \E f \in Frames, is_clean \in BOOLEAN :
           PacketIn(f, is_clean) /\ UNCHANGED burst_sent

QuarantineSpec == QInit /\ [][QNext]_vars

(* MycoBarrierLogic within one second, with hosts that may show up behind
   any port of a switch: the frames are those of Frames and the same frames
   entering by another port. *)
MovingFrames ==
    {f \in [dpid: Switches, src: Macs, dst: Macs, in_port: Ports,
            ethertype: {ETH_TYPE_IP}, buffer_id: {OFP_NO_BUFFER}] :
        f.dst # f.src}

LearningNext ==
    \E f \in MovingFrames : PacketIn(f, TRUE) /\ UNCHANGED burst_sent

LearningInit == QInit /\ variant = "logic"

LearningSpec == LearningInit /\ [][LearningNext]_vars

----------------------------------------------------------------------------
(* The scenario: MycoBarrierLogic, one source sending a burst of
   ScenarioBurst frames to one switch within one window and a few frames
   later on, every verification trial succeeding.  The first frame of the
   burst may open a window; until the burst is over the window does not
   end. *)

ScenarioInit == QInit /\ variant = "logic"

ScenarioFrame(f) ==
    /\ <<f.dpid, f.src>> = flooder
    /\ f.ethertype = ETH_TYPE_IP
    /\ burst_sent < MaxScenarioFrames
    /\ burst_sent \in 1..(ScenarioBurst - 1) => ~RateReset
    /\ burst_sent' = burst_sent + 1
    /\ PacketIn(f, TRUE)

ScenarioOther(f) ==
    /\ <<f.dpid, f.src>> # flooder
    /\ UNCHANGED burst_sent
    /\ PacketIn(f, TRUE)

ScenarioTick ==
    /\ burst_sent \in 1..(ScenarioBurst - 1) => now + 1 - start_time <= WINDOW
    /\ UNCHANGED burst_sent
    /\ Tick

ScenarioNext ==
    \/ \E f \in Frames : ScenarioFrame(f)
    \/ \E f \in Frames : ScenarioOther(f)
    \/ ScenarioTick

ScenarioSpec == ScenarioInit /\ [][ScenarioNext]_vars

----------------------------------------------------------------------------
(* The orchestrator's specification *)

Init ==
    /\ QInit
    /\ variant = "logic"
    /\ flooder = <<1, SERVER_MAC>>

Next ==
    \/ \E d \in Switches : switch_features_handler(d)
    \/ \E f \in OrchFrames : packet_in(f)
    \/ \E d \in Switches : \E r \in flows[d] : FlowExpire(d, r)
    \/ ClockTick
    \/ \E c \in CallIds, body \in Bodies : post_event(c, body)
    \/ \E c \in CallIds : trigger_event_enter(c)
    \/ \E c \in CallIds, fault \in {"none", "log", "apply"} :
           trigger_event_start(c, fault)
    \/ \E fault \in {"none", "log"} : _auto_end_event(fault)


Spec == Init /\ [][Next]_vars

(* The scheduler runs every green thread that can run: a call waiting for the
   lock gets it once it is free, a call holding the lock finishes, and an
   auto-end task whose sleep is over runs. *)
Fairness ==
    /\ \A c \in CallIds : WF_vars(trigger_event_enter(c))
    /\ \A c \in CallIds :
           WF_vars(\E fault \in {"none", "log", "apply"} :
                      trigger_event_start(c, fault))
    /\ WF_vars(\E fault \in {"none", "log"} : _auto_end_event(fault))

FairSpec == Spec /\ Fairness

(* The episode machinery alone, with _auto_end_event started a second time
   for an episode. *)
DoubleEndNext ==
    \/ \E d \in Switches : switch_features_handler(d)
    \/ \E c \in CallIds, body \in Bodies : post_event(c, body)
    \/ \E c \in CallIds : trigger_event_enter(c)
    \/ \E c \in CallIds, fault \in {"none", "log", "apply"} :
           trigger_event_start(c, fault)
    \/ \E fault \in {"none", "log"} : _auto_end_event(fault)
    \/ second_auto_end

DoubleEndSpec == Init /\ [][DoubleEndNext]_vars

(* The latency probe alone: switches register, the loop ticks, replies
   arrive (or do not), the clock advances. *)
EchoNext ==
    \/ \E d \in Switches : switch_features_handler(d)
    \/ _echo_loop
    \/ \E d \in Switches, data \in EchoData : echo_reply(d, data)
    \/ ClockTick

EchoSpec == Init /\ [][EchoNext]_vars

(* The probe loop is a green thread that runs for ever, and time passes;
   nothing obliges a switch to reply. *)
EchoFairSpec == EchoSpec /\ WF_vars(_echo_loop) /\ WF_vars(ClockTick)

(* The episode machinery with packet-ins that arrive only while a call of
   trigger_event holds the lock. *)
packet_in_under_lock(f) == event_lock = 0 /\ packet_in(f)

HeldLockNext ==
    \/ \E d \in Switches : switch_features_handler(d)
    \/ \E f \in OrchFrames : packet_in_under_lock(f)
    \/ \E c \in CallIds, body \in Bodies : post_event(c, body)
    \/ \E c \in CallIds : trigger_event_enter(c)
    \/ \E c \in CallIds, fault \in {"none", "log", "apply"} :
           trigger_event_start(c, fault)
    \/ \E fault \in {"none", "log"} : _auto_end_event(fault)

HeldLockSpec == Init /\ [][HeldLockNext]_vars

(* The latency probe with switches whose connections may close. *)
ConnectionNext ==
    \/ EchoNext
    \/ \E d \in Switches : connection_closed(d)

ConnectionSpec == Init /\ [][ConnectionNext]_vars

----------------------------------------------------------------------------
(* Single-flight episodes *)

InCritical == {c \in CallIds : calls[c].pc = "critical"}
EpisodePriorities == {300, 320, 340}
EpisodeState == <<active_event, flows, event_log, auto_end_tasks>>

(* C1: at most one episode is active at a time: an episode is started only
   when the slot is empty, a trigger that finds the slot occupied is declined
   and changes nothing, and of two triggers racing on an empty slot only one
   at a time is past the test of the slot, so the second one finds the slot
   of the first. *)
C1_SingleActiveEpisode ==
    /\ [](/\ Cardinality(InCritical) <= 1
          /\ InCritical # {} => active_event = <<>> /\ event_lock = 0
          /\ auto_end_tasks <= 1
          /\ auto_end_tasks = 1 => active_event # <<>>)
    /\ [][\A c \in CallIds :
            /\ (active_event # <<>> /\ trigger_event_enter(c)) =>
                   /\ response' = Declined("Another event is active")
                   /\ calls'[c] = IdleCall
                   /\ UNCHANGED EpisodeState
            /\ (active_event' # active_event /\ active_event' # <<>>) =>
                   active_event = <<>>
            /\ (auto_end_tasks' > auto_end_tasks) =>
                   /\ active_event = <<>> /\ active_event' # <<>>
                   /\ response' = Accepted]_vars

(* C1's case: a trigger was declined because an episode is active. *)
C1_Witness ==
    /\ response = Declined("Another event is active")
    /\ active_event # <<>>
    /\ auto_end_tasks = 1

(* C2: when an episode ends, on every registered switch exactly the rules
   carrying its cookie are deleted: none of the strategies' rules remains,
   and the table-miss rule and the learned forwarding rules are all still
   installed. *)
C2_CleanupByCookie ==
    [][\A fault \in {"none", "log"} :
          (active_event # <<>> /\ _auto_end_event(fault)) =>
              \A d \in datapaths :
                  /\ flows'[d] \subseteq flows[d]
                  /\ \A r \in flows'[d] :
                         /\ r.cookie # active_event[1].cookie
                         /\ r.priority \notin EpisodePriorities
                  /\ \A r \in flows[d] :
                         r.cookie # active_event[1].cookie => r \in flows'[d]
                  /\ \A r \in flows[d] :
                         r.priority \notin EpisodePriorities => r \in flows'[d]]_vars

(* C2's case: a cleanup deleted an episode's rules and left a learned
   forwarding rule and the table-miss rule in place. *)
C2_Witness ==
    /\ cleanup_removed # {}
    /\ active_event = <<>>
    /\ \E d \in datapaths :
           /\ \E r \in flows[d] : r.priority = 10
           /\ \E r \in flows[d] : r.priority = 0
           /\ \E r \in cleanup_removed : r.match.ipv4_dst = "10.0.0.1"

(* C3: every episode that fills the slot is eventually ended: the slot is
   eventually empty again. *)
C3_EpisodeEventuallyEnded == (active_event # <<>>) ~> (active_event = <<>>)

(* C10: a declined request creates no partial state.  Only a request with a
   valid strategy, a known target and a duration in (0, 120] reaches the
   lock; any other is answered at once.  A request that finds an episode
   active, or whose strategy needs a decoy where none is attached, is
   answered under the lock.  Each of these answers is a 400 with a message,
   and the slot, the flow tables, the event log and the auto-end tasks are
   as before. *)
C10_DeclinedChangesNothing ==
    [][/\ (requests_left' # requests_left) =>
            /\ \A c \in CallIds :
                   calls'[c] # calls[c] =>
                       /\ calls'[c].strategy \in {"myco_scout", "myco_box", "myco_swap"}
                       /\ calls'[c].target_ip \in {h.ip : h \in Hosts}
                       /\ calls'[c].duration_s > 0
                       /\ calls'[c].duration_s <= 120
            /\ calls' = calls =>
                   /\ response'.status # 500 =>
                          /\ response'.status = 400
                          /\ ~response'.ok /\ response'.msg # ""
                   /\ UNCHANGED EpisodeState
       /\ \A c \in CallIds :
            (active_event # <<>> /\ trigger_event_enter(c)) =>
                /\ response'.status = 400 /\ ~response'.ok /\ response'.msg # ""
                /\ UNCHANGED EpisodeState
       /\ \A c \in CallIds, fault \in {"none", "log", "apply"} :
            (/\ calls[c].strategy \in {"myco_box", "myco_swap"}
             /\ \A x \in Proxies : x.dpid # host_by_ip(calls[c].target_ip).dpid
             /\ trigger_event_start(c, fault)) =>
                /\ response'.status = 400 /\ ~response'.ok /\ response'.msg # ""
                /\ UNCHANGED EpisodeState
       /\ (response' # response /\ response'.status = 400) =>
                UNCHANGED EpisodeState]_vars

(* C10's case: a request needing a decoy was declined for lack of one, after
   an earlier episode left rules and log records behind. *)
C10_Witness ==
    /\ response = Declined("No proxy attached to target edge switch")
    /\ active_event = <<>>
    /\ event_log # <<>>

(* C11: whatever body is sent to the episode trigger, and whether or not the
   start routine fails, the caller is answered with an acceptance or with a
   refusal carrying a message: no request ends in an internal error. *)
C11_AcceptedOrDeclined ==
    /\ response.status \in {0, 200, 400}
    /\ response.status = 400 => response.msg # ""

(* The decoy of the configuration that sits on the switch of target t. *)
DecoyOf(t) == CHOOSE x \in Proxies : x.dpid = host_by_ip(t).dpid
SandboxActive ==
    active_event # <<>> /\ active_event[1].strategy = "myco_box"

(* C12: when a Sandbox episode for target T starts, the rule installed on T's
   switch matches IP frames destined to T, rewrites their destination to the
   network and link-layer address of the decoy D on that switch and outputs
   them on D's port; no other switch gets a rule; and as long as the episode
   is active no rule with an empty action list is installed anywhere. *)
C12_SandboxRule ==
    [][/\ (/\ active_event = <<>>
           /\ active_event' # <<>>
           /\ response' = Accepted
           /\ active_event'[1].strategy = "myco_box") =>
              LET t == active_event'[1].target_ip
                  sw == host_by_ip(t).dpid
                  D == DecoyOf(t)
              IN  /\ \A d \in Switches \ {sw} : flows'[d] = flows[d]
                  /\ sw \in datapaths =>
                        /\ Cardinality(flows'[sw] \ flows[sw]) = 1
                        /\ \A r \in flows'[sw] \ flows[sw] :
                              /\ r.match.eth_type = 2048
                              /\ r.match.ipv4_dst = t
                              /\ r.actions = <<SetField("ipv4_dst", D.ip),
                                               SetField("eth_dst", D.mac),
                                               Output(D.port)>>
       /\ (SandboxActive \/ (active_event' # <<>>
                                /\ active_event'[1].strategy = "myco_box")) =>
              \A d \in Switches :
                  \A r \in flows'[d] \ flows[d] : r.actions # <<>>]_vars

(* C12's case: a Sandbox episode is active, both switches are registered, the
   rewriting rule sits on the target's switch and the other switch holds no
   rule of the episode. *)
C12_Witness ==
    /\ SandboxActive
    /\ response = Accepted
    /\ datapaths = Switches
    /\ \E r \in flows[active_event[1].target_dpid] :
           r.cookie = active_event[1].cookie /\ r.priority = 320
    /\ \A d \in Switches \ {active_event[1].target_dpid} :
           \A r \in flows[d] : r.priority # 320

(* C13: while a Proxy-Swap episode for target T with decoy D is active, an
   ARP request for T's address that reaches the controller is answered: the
   handler sends one PacketOut, out of the port the request came in on, that
   carries an ARP reply whose sender MAC is D's. *)
C13_ArpAnsweredByDecoy ==
    [][(/\ frames_left' # frames_left
        /\ active_event # <<>>
        /\ active_event[1].strategy = "myco_swap"
        /\ \E f \in OrchFrames :
               /\ f.kind = "arp"
               /\ f.arp_op = "request"
               /\ f.arp_tpa = active_event[1].target_ip
               /\ packet_in(f)
               /\ ~(/\ Len(sent') = 1
                    /\ sent'[1].actions = <<Output(f.in_port)>>
                    /\ sent'[1].data.src_mac = active_event[1].proxy_mac))
           => FALSE]_vars

(* C14: ending is idempotent.  A run of the end routine that finds no
   episode active sends no cleanup message, appends no record to the event
   log and leaves the slot, the flow tables and everything else as they
   were: ending an episode twice has the effect of ending it once. *)
C14_EndIdempotent ==
    [][(ends_run' # ends_run /\ active_event = <<>>) =>
           /\ flows' = flows
           /\ cleanup_removed' = cleanup_removed
           /\ event_log' = event_log
           /\ active_event' = <<>>
           /\ UNCHANGED <<mac_to_port, sent, datapaths, event_lock, calls,
                          response>>]_vars

(* C14's case: the one episode so far was ended twice, and the log holds its
   start and a single end. *)
C14_Witness ==
    /\ epoch = 1
    /\ ends_run = 2
    /\ active_event = <<>>
    /\ Len(event_log) = 2

(* C15: an auto-end timer acts only on the episode that scheduled it.  As
   long as a timer is pending, the episode that scheduled it is the active
   one; a firing that changes the slot, the flow tables or the event log
   finds that episode active, and after it no timer is left to act on a
   later episode or to clean up this one a second time. *)
C15_TimerEndsOwnEpisode ==
    /\ [](auto_end_tasks > 0 =>
              /\ active_event # <<>>
              /\ task_epoch = epoch
              /\ auto_end_tasks = 1)
    /\ [](ends_run <= epoch)
    /\ [][(/\ ends_run' # ends_run
            /\ \/ active_event' # active_event
               \/ flows' # flows
               \/ event_log' # event_log) =>
               /\ active_event # <<>>
               /\ task_epoch = epoch
               /\ auto_end_tasks' = 0]_vars

(* C15's case: two episodes came one after the other and each was ended by
   its own timer. *)
C15_Witness ==
    /\ epoch = 2
    /\ ends_run = 2
    /\ active_event = <<>>
    /\ auto_end_tasks = 0
    /\ Len(event_log) = 4

(* C16: a send that fails on one switch is caught for that switch alone.
   When the first flow-mod of an Isolate start fails, at most that one
   registered switch is left without the episode's drop rules, and the
   episode that was marked active has its auto-end task scheduled. *)
C16_SendFailureContained ==
    [][(/\ epoch' # epoch
        /\ event_log' # event_log
        /\ response' = InternalError
        /\ active_event'[1].strategy = "myco_scout") =>
           /\ auto_end_tasks' = auto_end_tasks + 1
           /\ Cardinality({d \in datapaths : flows'[d] = flows[d]}) <= 1]_vars

(* C20: the event log only grows at its end.  Its records alternate, start
   then end, over the whole run; the step that accepts an episode appends
   that episode's start record and nothing else, the step that clears the
   slot appends its end record and nothing else, and the end record carries
   the strategy, target and decoy fields of the start record before it.  A
   declined request appends nothing. *)
SameEpisodeFields(a, b) ==
    /\ a.strategy = b.strategy
    /\ a.target_ip = b.target_ip
    /\ a.target_mac = b.target_mac
    /\ a.target_dpid = b.target_dpid
    /\ a.proxy_ip = b.proxy_ip
    /\ a.proxy_mac = b.proxy_mac
    /\ a.proxy_port = b.proxy_port
C20_EventLog ==
    /\ [](\A i \in 1..Len(event_log) :
              /\ event_log[i].event = (IF i % 2 = 1 THEN "start" ELSE "end")
              /\ i % 2 = 0 => SameEpisodeFields(event_log[i], event_log[i - 1]))
    /\ [](active_event = <<>> /\ InCritical = {} => Len(event_log) % 2 = 0)
    /\ [][/\ Len(event_log') >= Len(event_log)
          /\ SubSeq(event_log', 1, Len(event_log)) = event_log
          /\ Len(event_log') <= Len(event_log) + 1
          /\ (response' = Accepted /\ epoch' # epoch) =>
                 /\ Len(event_log') = Len(event_log) + 1
                 /\ event_log'[Len(event_log')].event = "start"
                 /\ SameEpisodeFields(event_log'[Len(event_log')],
                                      active_event'[1])
          /\ (active_event # <<>> /\ active_event' = <<>>) =>
                 /\ Len(event_log') = Len(event_log) + 1
                 /\ event_log'[Len(event_log')].event = "end"
                 /\ SameEpisodeFields(event_log'[Len(event_log')],
                                      active_event[1])
          /\ (response' # response /\ response'.status = 400) =>
                 event_log' = event_log]_vars

(* C20's case: two episodes with different decoy fields ran one after the
   other, and the log holds start, end, start, end. *)
C20_Witness ==
    /\ Len(event_log) = 4
    /\ event_log[1].proxy_mac # event_log[3].proxy_mac
    /\ active_event = <<>>

(* C21: every rule a strategy installs, on whichever switch, carries the tag
   of the episode being started as its cookie, and that tag is not zero; a
   rule installed by any other step (the table-miss rule of a handshake, a
   learned forwarding rule) carries cookie zero, the tag of no episode. *)
C21_RulesCarryEpisodeTag ==
    /\ [](active_event # <<>> => active_event[1].cookie # 0)
    /\ [][\A d \in Switches :
              \A r \in flows'[d] \ flows[d] :
                  IF epoch' # epoch
                  THEN /\ r.cookie = active_event'[1].cookie
                       /\ r.priority \in EpisodePriorities
                  ELSE /\ r.cookie = 0
                       /\ r.priority \notin EpisodePriorities]_vars

(* C21's case: a Proxy-Swap episode has its two tagged rules on the target's
   switch, next to the table-miss rule and a learned rule without tag. *)
C21_Witness ==
    /\ active_event # <<>>
    /\ active_event[1].strategy = "myco_swap"
    /\ LET d == active_event[1].target_dpid
       IN  /\ Cardinality({r \in flows[d] :
                               r.cookie = active_event[1].cookie}) = 2
           /\ \E r \in flows[d] : r.priority = 10 /\ r.cookie = 0
           /\ \E r \in flows[d] : r.priority = 0 /\ r.cookie = 0

(* C22: the start of an Isolate episode for target T installs, on every
   switch registered at that moment, a drop rule for IP frames destined to T
   and a drop rule for IP frames coming from T, both with an empty action
   list and the episode's tag, and nothing else; switches that are not
   registered get nothing. *)
C22_IsolateDropRules ==
    [][(/\ epoch' # epoch
        /\ response' = Accepted
        /\ active_event'[1].strategy = "myco_scout") =>
           LET e == active_event'[1]
               to_T == Rule(300, OFPMatch(0, ANY, ANY, 2048, ANY, e.target_ip),
                            <<>>, e.cookie, 0, 0)
               from_T == Rule(300, OFPMatch(0, ANY, ANY, 2048, e.target_ip, ANY),
                              <<>>, e.cookie, 0, 0)
           IN  \A d \in Switches :
                   flows'[d] \ flows[d] =
                       IF d \in datapaths THEN {to_T, from_T} ELSE {}]_vars

(* C22's case: an Isolate episode is active with both switches registered,
   and each switch holds the two drop rules of the episode. *)
C22_Witness ==
    /\ active_event # <<>>
    /\ active_event[1].strategy = "myco_scout"
    /\ response = Accepted
    /\ datapaths = Switches
    /\ \A d \in Switches :
           Cardinality({r \in flows[d] : r.cookie = active_event[1].cookie
                                         /\ r.actions = <<>>}) = 2

(* C23: a handshake registers the switch and installs on it a rule that
   matches every frame, at priority 0, whose one action outputs to the
   controller.  No rule of the controller has a lower priority and no other
   rule has priority 0; a handshake of a switch that is registered already
   leaves the registry as it was, with one entry for the switch. *)
TableMiss == Rule(0, OFPMatch(0, ANY, ANY, 0, ANY, ANY),
                  <<Output(OFPP_CONTROLLER)>>, 0, 0, 0)
C23_HandshakeDefaultRule ==
    /\ [](\A d \in Switches :
              /\ \A r \in flows[d] : r.priority >= 0
              /\ \A r \in flows[d] : r.priority = 0 => r = TableMiss
              /\ d \in datapaths <=> TableMiss \in flows[d])
    /\ [][\A d \in Switches :
              switch_features_handler(d) =>
                  /\ datapaths' = datapaths \cup {d}
                  /\ d \in datapaths => datapaths' = datapaths
                  /\ flows'[d] = (flows[d] \ {TableMiss}) \cup {TableMiss}
                  /\ \A d2 \in Switches \ {d} : flows'[d2] = flows[d2]]_vars

(* C23's case: both switches have shaken hands, each holds the default rule,
   and one holds a rule of higher priority as well. *)
C23_Witness ==
    /\ datapaths = Switches
    /\ \A d \in Switches : TableMiss \in flows[d]
    /\ \E d \in Switches : \E r \in flows[d] : r.priority > 0

(* C25: an irrelevant or malformed frame, that is a topology-discovery frame
   or a frame without a link-layer header, is ignored: the handler learns
   nothing, installs no rule and sends no message. *)
C25_IrrelevantFrameIgnored ==
    [][(/\ frames_left' # frames_left
        /\ \E f \in OrchFrames :
               f.kind \in {"lldp", "none"} /\ packet_in(f)) =>
           /\ mac_to_port' = mac_to_port
           /\ flows' = flows
           /\ sent' = <<>>]_vars

(* C26: a switch is in the registry from its handshake until its connection
   closes: no probe tick addresses an echo request to a switch whose
   connection has closed. *)
C26_ClosedSwitchNotProbed ==
    [][_xid' # _xid => \A q \in echo_out' : q.dpid \in connected]_vars

(* C27: packet processing does not wait for an episode.  While a call holds
   the episode lock, every frame of a registered switch can be handled to
   completion, and the handler leaves the lock and the active-episode slot
   as they are: it reads the slot and writes neither. *)
C27_PacketInNeverBlocks ==
    /\ [](\A f \in OrchFrames :
              (/\ event_lock = 0
               /\ frames_left > 0
               /\ f.dpid \in datapaths
               /\ f.dst # f.src
               /\ f.in_port = PortOf(f.dpid, f.src)) => ENABLED packet_in(f))
    /\ [][frames_left' # frames_left =>
              /\ event_lock' = event_lock
              /\ active_event' = active_event
              /\ calls' = calls]_vars

(* C27's case: a frame was handled and forwarded while a call held the lock
   with an episode's start under way. *)
C27_Witness ==
    /\ event_lock = 0
    /\ InCritical # {}
    /\ frames_left < MaxFrames
    /\ Len(sent) = 1

(* The two rules of a Proxy-Swap episode e with decoy D: inbound and
   outbound. *)
SwapInbound(e, D) ==
    Rule(340, OFPMatch(0, ANY, ANY, ETH_TYPE_IP, ANY, e.target_ip),
         <<SetField("ipv4_dst", D.ip), SetField("eth_dst", D.mac),
           Output(D.port)>>, e.cookie, 0, 0)
SwapOutbound(e, D) ==
    Rule(340, OFPMatch(D.port, ANY, ANY, ETH_TYPE_IP, D.ip, ANY),
         <<SetField("ipv4_src", e.target_ip), SetField("eth_src", e.target_mac),
           Output(OFPP_CONTROLLER)>>, e.cookie, 0, 0)

(* C32: when a Proxy-Swap episode for target T with decoy D starts, T's
   switch, if registered, gets exactly two rules, both with the episode's
   cookie: the inbound rule (IP frames destined to T: destination rewritten
   to D's network and link-layer address, output on D's port) and the
   outbound rule (IP frames entering on D's port with D's source address:
   source rewritten to T's network and link-layer address, output to the
   controller); no other switch gets a rule. *)
C32_SwapRules ==
    [][(/\ active_event = <<>>
        /\ active_event' # <<>>
        /\ response' = Accepted
        /\ active_event'[1].strategy = "myco_swap") =>
           LET e == active_event'[1]
               sw == host_by_ip(e.target_ip).dpid
               D == DecoyOf(e.target_ip)
           IN  /\ \A d \in Switches \ {sw} : flows'[d] = flows[d]
               /\ sw \in datapaths =>
                     /\ SwapInbound(e, D) \in flows'[sw]
                     /\ SwapOutbound(e, D) \in flows'[sw]
                     /\ flows'[sw] \ flows[sw] \subseteq
                            {SwapInbound(e, D), SwapOutbound(e, D)}
                     /\ e.cookie = clock_ms]_vars

(* C32's case: a Proxy-Swap episode is active, both switches are registered,
   the target's switch holds the two rules and the other switch none of
   priority 340. *)
C32_Witness ==
    /\ active_event # <<>>
    /\ active_event[1].strategy = "myco_swap"
    /\ response = Accepted
    /\ datapaths = Switches
    /\ LET e == active_event[1]
       IN  /\ {SwapInbound(e, DecoyOf(e.target_ip)),
               SwapOutbound(e, DecoyOf(e.target_ip))}
                  \subseteq flows[e.target_dpid]
           /\ \A d \in Switches \ {e.target_dpid} :
                  \A r \in flows[d] : r.priority # 340

(* C33: when no episode is active the baseline policy applies to every
   frame that has a link-layer header, ARP frames included: the source's
   ingress port is learned and the frame is sent to the learned port of its
   destination or, if the destination is unknown, flooded. *)
C33_BaselineForwardsEveryFrame ==
    [][(/\ frames_left' # frames_left
        /\ active_event = <<>>) =>
           \A f \in OrchFrames :
               (f.kind # "none" /\ packet_in(f)) =>
                   /\ mac_to_port' = LearnedPorts(f)
                   /\ Len(sent') = 1
                   /\ sent'[1].type = "packet_out"
                   /\ sent'[1].actions =
                          <<Output(IF mac_to_port'[f.dpid][f.dst] # 0
                                   THEN mac_to_port'[f.dpid][f.dst]
                                   ELSE OFPP_FLOOD)>>]_vars

(* C38: a Sandbox or Proxy-Swap episode that has been started and accepted
   has its inbound redirect rule on the target's attaching switch: no
   episode is marked active for a target whose switch is not registered with
   no rule installed. *)
C38_ActiveEpisodeHasRedirect ==
    [][(/\ active_event = <<>>
        /\ active_event' # <<>>
        /\ response' = Accepted
        /\ active_event'[1].strategy \in {"myco_box", "myco_swap"}) =>
           LET e == active_event'[1]
           IN  \E r \in flows'[e.target_dpid] :
                   /\ r.cookie = e.cookie
                   /\ r.match.ipv4_dst = e.target_ip
                   /\ r.actions = <<SetField("ipv4_dst", e.proxy_ip),
                                    SetField("eth_dst", e.proxy_mac),
                                    Output(e.proxy_port)>>]_vars

----------------------------------------------------------------------------
(* Control-plane latency probes *)

(* C17: a probe tick sends one echo request to every registered switch; the
   requests carry sequence ids that are greater than every id issued before
   and differ from switch to switch, and each is recorded with its send time
   under (switch, id).  A sample is appended only for a reply whose (switch,
   id) is pending, and that entry is discarded with it: a probe yields at
   most one sample, and a duplicate, unknown or wrong-switch reply none. *)
C17_ProbesAndSamples ==
    /\ [](\A e \in _echo_sent : e.xid < _xid)
    /\ [](\A i, j \in 1..Len(ctrl_log) :
              ctrl_log[i].xid = ctrl_log[j].xid => i = j)
    /\ [](\A i \in 1..Len(ctrl_log) :
              \A e \in _echo_sent : e.xid # ctrl_log[i].xid)
    /\ [][/\ _xid' # _xid =>
              /\ \A d \in datapaths :
                     Cardinality({q \in echo_out' : q.dpid = d}) = 1
              /\ \A q \in echo_out' :
                     /\ q.dpid \in datapaths
                     /\ int(q.data) >= _xid
                     /\ int(q.data) < _xid'
                     /\ \A q2 \in echo_out' : q2.data = q.data => q2 = q
                     /\ [dpid |-> q.dpid, xid |-> int(q.data), t |-> clock_ms]
                            \in _echo_sent'
              /\ _echo_sent \subseteq _echo_sent'
              /\ ctrl_log' = ctrl_log
          /\ ctrl_log' # ctrl_log =>
              /\ Len(ctrl_log') = Len(ctrl_log) + 1
              /\ SubSeq(ctrl_log', 1, Len(ctrl_log)) = ctrl_log
              /\ LET smp == ctrl_log'[Len(ctrl_log')]
                     e == [dpid |-> smp.dpid, xid |-> smp.xid,
                           t |-> clock_ms - smp.rtt_ms]
                 IN  e \in _echo_sent /\ _echo_sent' = _echo_sent \ {e}
          /\ _echo_sent' # _echo_sent =>
              (_xid' # _xid \/ ctrl_log' # ctrl_log)]_vars

(* C17's case: both switches were probed, one probe was answered and gave a
   sample, the other is still pending. *)
C17_Witness ==
    /\ datapaths = Switches
    /\ Len(ctrl_log) = 1
    /\ \E e \in _echo_sent : e.dpid # ctrl_log[1].dpid
    /\ \A q \in echo_out : q.data \in {str(1), str(2)}
    /\ Cardinality(echo_out) = 2

(* C18: a probe that never gets its reply does not stay in the pending
   table for ever: every pending entry is eventually gone, by its reply or by
   eviction. *)
C18_LostProbeEvicted ==
    \A d \in Switches, x \in 1..MaxXid :
        (<<d, x>> \in EchoKeys(_echo_sent))
            ~> (<<d, x>> \notin EchoKeys(_echo_sent))

(* C19: every sample of the latency log is the time of the reply minus the
   recorded send time of the probe it answers, and is never negative. *)
C19_SampleNonNegative ==
    /\ [](\A i \in 1..Len(ctrl_log) :
              ctrl_log[i].rtt_ms >= 0 /\ ctrl_log[i].rtt_ms <= clock_ms)
    /\ [][ctrl_log' # ctrl_log =>
              \E e \in _echo_sent :
                  /\ e \notin _echo_sent'
                  /\ ctrl_log'[Len(ctrl_log')].xid = e.xid
                  /\ ctrl_log'[Len(ctrl_log')].rtt_ms = clock_ms - e.t]_vars

(* C19's case: a reply arrived after the clock had moved on, and one that
   arrived at once. *)
C19_Witness ==
    /\ Len(ctrl_log) = 2
    /\ ctrl_log[1].rtt_ms > 0
    /\ ctrl_log[2].rtt_ms = 0

----------------------------------------------------------------------------
(* Detection, isolation and reintegration *)

(* A step of QuarantineSpec that is not the passing of a second is a handler
   call; verdict' names the switch and the source of the frame it handled. *)
Quarantined(m) == InQuarantine(quarantine_list, m)
StillQuarantined(m) == InQuarantine(quarantine_list', m)
DropRule(dpid, src) ==
    [type |-> "flow_mod", dpid |-> dpid, priority |-> 100,
     match |-> [in_port |-> 0, eth_src |-> src, eth_dst |-> ANY, eth_type |-> 0,
                ipv4_src |-> ANY, ipv4_dst |-> ANY],
     actions |-> <<>>, buffer_id |-> OFP_NO_BUFFER, idle_timeout |-> 0,
     hard_timeout |-> RECOVERY_TIME, in_port |-> 0, data |-> FALSE]

(* C4: a source has at most one Quarantine Record, and a frame of a source
   that is quarantined and stays so never re-arms the timer: the release time
   is as before, or extended by the penalty of a failed trial, and the
   records of the other sources are untouched. *)
C4_OneRecordPerSource ==
    /\ [](\A r1, r2 \in quarantine_list : r1.mac = r2.mac => r1 = r2)
    /\ [][~Tick =>
            \A m \in Macs :
                (Quarantined(m) /\ StillQuarantined(m)) =>
                    /\ Cardinality({r \in quarantine_list' : r.mac = m}) = 1
                    /\ IF m = verdict'.src
                       THEN ReleaseTime(quarantine_list', m) \in
                                {ReleaseTime(quarantine_list, m),
                                 ReleaseTime(quarantine_list, m) + PENALTY}
                       ELSE ReleaseTime(quarantine_list', m) =
                                ReleaseTime(quarantine_list, m)]_vars

(* C4's case: a frame of a source whose timer is running was handled, a
   second after the source was quarantined. *)
C4_Witness ==
    /\ verdict.outcome = "dropped"
    /\ Quarantined(verdict.src)
    /\ ReleaseTime(quarantine_list, verdict.src) = now + RECOVERY_TIME - 1
    /\ variant = "final"

(* C5: the frame that takes the count of its (switch, source) above the
   threshold isolates the source in that handler call: the source has a
   record releasing RECOVERY_TIME from now, the one message sent is the
   priority-100 drop rule for the source on that switch with hard timeout
   RECOVERY_TIME, and the frame is neither learned nor forwarded. *)
C5_CrossingFrameIsolates ==
    [][(/\ ~Tick
        /\ variant = "logic"
        /\ verdict'.outcome \notin {"ignored", "dropped"}
        /\ packet_counts'[verdict'.dpid][verdict'.src] > DETECTION_THRESHOLD) =>
            /\ StillQuarantined(verdict'.src)
            /\ ReleaseTime(quarantine_list', verdict'.src) = now + RECOVERY_TIME
            /\ sent' = <<DropRule(verdict'.dpid, verdict'.src)>>
            /\ mac_to_port' = mac_to_port
            /\ verdict'.outcome = "isolated"]_vars

(* C5's case: MycoBarrierLogic has just isolated a source. *)
C5_Witness ==
    /\ variant = "logic"
    /\ verdict.outcome = "isolated"
    /\ packet_counts[verdict.dpid][verdict.src] = DETECTION_THRESHOLD + 1

(* C6: a source that never sent more than the threshold to one switch within
   one second is never isolated: no record is created for it and no handler
   call returns by isolating it. *)
C6_NoFalsePositive ==
    [][/\ \A m \in Macs :
            (~Quarantined(m) /\ StillQuarantined(m)) => m \in exceeded'
       /\ (~Tick /\ verdict'.outcome = "isolated") =>
            verdict'.src \in exceeded']_vars

(* C6's case: among frames of several sources, a source has sent exactly the
   threshold in one window, over two seconds, and is not isolated. *)
C6_Witness ==
    \E d \in Switches, m \in Macs :
        /\ packet_counts[d][m] = DETECTION_THRESHOLD
        /\ seen_before[d][m] > 0
        /\ seen_before[d][m] + seen_now[d][m] = DETECTION_THRESHOLD
        /\ other_left < MaxOtherFrames
        /\ ~Quarantined(m)
        /\ verdict = Returned("forwarded", [dpid |-> d, src |-> m])

(* C7: the frame that passes verification is forwarded, not isolated (no
   frame of a quarantined source isolates it afresh), and leaves the source
   with a count of one for its switch and none elsewhere;
   and a record is only ever created by a frame of the source that takes its
   count above the threshold.  So a source is isolated again only by frames
   counted after its reintegration. *)
C7_ReintegrationMonotonic ==
    [][~Tick =>
          \A m \in Macs :
              /\ (Quarantined(m) /\ ~StillQuarantined(m)) =>
                     /\ verdict' = Returned("forwarded",
                                            [dpid |-> verdict'.dpid, src |-> m])
                     /\ \A d \in Switches :
                            packet_counts'[d][m] =
                                IF d = verdict'.dpid THEN 1 ELSE 0
              /\ (Quarantined(m) /\ m = verdict'.src) =>
                     verdict'.outcome # "isolated"
              /\ (~Quarantined(m) /\ StillQuarantined(m)) =>
                     /\ verdict'.src = m
                     /\ packet_counts'[verdict'.dpid][m] > DETECTION_THRESHOLD
                     /\ packet_counts'[verdict'.dpid][m] =
                            packet_counts[verdict'.dpid][m] + 1]_vars

(* C7's case: a reintegrated source goes on sending below the threshold and
   is forwarded. *)
C7_Witness ==
    /\ verdict.src \in released
    /\ verdict.outcome = "forwarded"
    /\ ~Quarantined(verdict.src)
    /\ packet_counts[verdict.dpid][verdict.src] = 2

(* C8: in the scenario the source is forwarded up to its 30th frame,
   quarantined by its 31st with a release 10 s away, and dropped from the
   32nd to the 45th; a later frame that comes once the timer has run out and
   the trial is due passes the trial, removes the record and is forwarded,
   and so are the frames after it. *)
C8_BurstScenario ==
    [][(burst_sent' = burst_sent + 1) =>
          LET n == burst_sent'
              src == flooder[2]
          IN  /\ verdict'.src = src /\ verdict'.dpid = flooder[1]
              /\ n <= 30 =>
                     verdict'.outcome = "forwarded" /\ ~StillQuarantined(src)
              /\ n = 31 =>
                     /\ verdict'.outcome = "isolated"
                     /\ StillQuarantined(src)
                     /\ ReleaseTime(quarantine_list', src) = now + 10
              /\ (n >= 32 /\ n <= 45) =>
                     verdict'.outcome = "dropped" /\ StillQuarantined(src)
              /\ (/\ n > 45
                  /\ Quarantined(src)
                  /\ now > ReleaseTime(quarantine_list, src)
                  /\ src \in vpa_verification_queue) =>
                     verdict'.outcome = "forwarded" /\ ~StillQuarantined(src)
              /\ (n > 45 /\ src \in released) =>
                     /\ verdict'.outcome = "forwarded"
                     /\ ~StillQuarantined(src)
                     /\ \E i \in 1..Len(sent') : sent'[i].type = "packet_out"]_vars

(* C8's case: the source sent its burst, was quarantined, waited, passed the
   trial, and its next frame was forwarded. *)
C8_Witness ==
    /\ burst_sent = MaxScenarioFrames
    /\ flooder[2] \in released
    /\ ~Quarantined(flooder[2])
    /\ verdict = Returned("forwarded", [dpid |-> flooder[1], src |-> flooder[2]])
    /\ packet_counts[flooder[1]][flooder[2]] = 2

(* C9: a frame of a source that is quarantined, and not released in this
   call, is dropped: the counters, the window start and the L2 table are as
   before and no message is sent, on whichever switch it arrives. *)
C9_ScreenedBeforeCounting ==
    [][(/\ ~Tick
        /\ verdict'.outcome # "ignored"
        /\ Quarantined(verdict'.src)
        /\ StillQuarantined(verdict'.src)) =>
            /\ verdict'.outcome = "dropped"
            /\ packet_counts' = packet_counts
            /\ start_time' = start_time
            /\ mac_to_port' = mac_to_port
            /\ sent' = <<>>]_vars

(* C9's case: a frame of a quarantined source was dropped on a switch other
   than the one that isolated it. *)
C9_Witness ==
    /\ verdict.outcome = "dropped"
    /\ Quarantined(verdict.src)
    /\ <<verdict.dpid, verdict.src>> # flooder
    /\ verdict.src = flooder[2]

----------------------------------------------------------------------------
(* Learning and forwarding *)

(* C24: a frame that passes screening and rate detection is learned and
   forwarded.  The ingress port is recorded for (switch, source), replacing
   what was recorded there and leaving every other entry as it was.  If the
   destination is known on that switch, one rule is installed for the pair
   (a priority above the default rule's 0, matching the ingress port and
   both addresses, with an idle timeout, outputting to the learned port) and
   one packet-out sends the frame to that port; if it is unknown, the one
   message is a packet-out that floods, and no rule is installed. *)
C24_LearnAndForward ==
    [][(variant = "logic" /\ verdict'.outcome = "forwarded") =>
          LET d == verdict'.dpid
              src == verdict'.src
              dst == CHOOSE m \in Macs : m # src
              out == sent'[Len(sent')]
              in_port == out.in_port
          IN  /\ Len(sent') >= 1
              /\ out.type = "packet_out"
              /\ mac_to_port' = [mac_to_port EXCEPT ![d][src] = in_port]
              /\ IF mac_to_port[d][dst] # 0
                 THEN /\ Len(sent') = 2
                      /\ sent'[1].type = "flow_mod"
                      /\ sent'[1].dpid = d
                      /\ sent'[1].priority > 0
                      /\ sent'[1].match = Match(in_port, src, dst)
                      /\ sent'[1].idle_timeout > 0
                      /\ sent'[1].actions = <<Output(mac_to_port[d][dst])>>
                      /\ out.actions = <<Output(mac_to_port[d][dst])>>
                 ELSE /\ Len(sent') = 1
                      /\ out.actions = <<Output(OFPP_FLOOD)>>]_vars

(* C24's case: a frame to a known destination was forwarded by a rule and a
   packet-out; its source, which has sent several frames to that switch, is
   recorded behind a port that is not its usual one, and the other switch
   knows nothing of it. *)
C24_Witness ==
    /\ verdict.outcome = "forwarded"
    /\ Len(sent) = 2
    /\ mac_to_port[verdict.dpid][verdict.src] # PortOf(verdict.dpid, verdict.src)
    /\ seen_now[verdict.dpid][verdict.src] >= 2
    /\ \A d \in Switches \ {verdict.dpid} : mac_to_port[d][verdict.src] = 0

----------------------------------------------------------------------------
(* The per-source state machine of MycoBarrierLogic *)

(* The state of source m: ALLOWED without a Quarantine Record, ISOLATED with
   a record, PENDING_VERIFICATION with a record and the source in the
   verification queue. *)
StateOf(q, queue, m) ==
    IF ~InQuarantine(q, m) THEN "ALLOWED"
    ELSE IF m \in queue THEN "PENDING_VERIFICATION"
    ELSE "ISOLATED"
SourceState(m) == StateOf(quarantine_list, vpa_verification_queue, m)
NextSourceState(m) == StateOf(quarantine_list', vpa_verification_queue', m)

(* C28: in MycoBarrierLogic a source moves from ALLOWED to ISOLATED (its
   frame crosses the threshold), from ISOLATED to PENDING_VERIFICATION (its
   frame arrives after the release time) and from PENDING_VERIFICATION to
   ALLOWED (the trial succeeds) or to ISOLATED.  It is never ALLOWED straight
   from ISOLATED nor PENDING_VERIFICATION straight from ALLOWED; its state
   changes, and its record is removed, only in the handling of one of its
   own frames, after its release time, never by the passing of time and
   never by another source's frame. *)
C28_SourceStateMachine ==
    [][variant = "logic" =>
          \A m \in Macs :
              LET a == SourceState(m)
                  b == NextSourceState(m)
              IN  /\ <<a, b>> \notin {<<"ALLOWED", "PENDING_VERIFICATION">>,
                                      <<"ISOLATED", "ALLOWED">>}
                  /\ a # b => ~Tick /\ verdict'.src = m
                  /\ (a = "ALLOWED" /\ b = "ISOLATED") =>
                         verdict'.outcome = "isolated"
                  /\ (a = "ISOLATED" /\ b = "PENDING_VERIFICATION") =>
                         /\ now > ReleaseTime(quarantine_list, m)
                         /\ verdict'.outcome = "dropped"
                  /\ (a = "PENDING_VERIFICATION" /\ b # a) =>
                         /\ now > ReleaseTime(quarantine_list, m)
                         /\ m \in released'
                         /\ verdict'.outcome \in {"forwarded", "isolated"}
                  /\ (Quarantined(m) /\ m \in released' \ released) =>
                         /\ a = "PENDING_VERIFICATION"
                         /\ ~Tick
                         /\ verdict'.src = m]_vars

(* C28's case: a source of MycoBarrierLogic went round the cycle: it was
   isolated, verified and reintegrated, and its frame is forwarded again
   with nothing left in the verification queue. *)
C28_Witness ==
    /\ variant = "logic"
    /\ verdict.outcome = "forwarded"
    /\ verdict.src \in released
    /\ SourceState(verdict.src) = "ALLOWED"
    /\ vpa_verification_queue = {}

(* C29: the frame that finds a quarantined source's release time passed
   puts the source into PENDING_VERIFICATION and is dropped: no message goes
   to any switch, and the record, the counters and the L2 table are as
   before.  From then on a frame of that source is handled otherwise than by
   dropping it only in the call whose trial succeeds. *)
C29_PendingStillDropped ==
    [][(variant = "logic" /\ ~Tick /\ verdict'.outcome # "ignored") =>
          LET m == verdict'.src
          IN  /\ (m \notin vpa_verification_queue
                      /\ m \in vpa_verification_queue') =>
                     /\ Quarantined(m)
                     /\ now > ReleaseTime(quarantine_list, m)
                     /\ sent' = <<>>
                     /\ verdict'.outcome = "dropped"
                     /\ quarantine_list' = quarantine_list
                     /\ packet_counts' = packet_counts
                     /\ mac_to_port' = mac_to_port
              /\ (m \in vpa_verification_queue
                      /\ verdict'.outcome # "dropped") =>
                     /\ now > ReleaseTime(quarantine_list, m)
                     /\ m \notin vpa_verification_queue'
                     /\ m \in released'
              /\ (m \in vpa_verification_queue
                      /\ m \in vpa_verification_queue') =>
                     /\ verdict'.outcome = "dropped"
                     /\ sent' = <<>>]_vars

(* C29's case: the release time of a source of MycoBarrierLogic has passed,
   its frame has put it into the verification queue and was dropped. *)
C29_Witness ==
    /\ variant = "logic"
    /\ verdict.outcome = "dropped"
    /\ verdict.src \in vpa_verification_queue
    /\ sent = <<>>
    /\ ReleaseTime(quarantine_list, verdict.src) = now - 1

(* C30: a failed verification trial extends the source's release time by
   the penalty, keeps its record, drops the frame and clears the
   verification-pending flag, so that the source passes through
   PENDING_VERIFICATION again before its next trial. *)
C30_FailedTrialClearsFlag ==
    [][(/\ variant = "logic"
        /\ ~Tick
        /\ verdict'.outcome = "dropped"
        /\ verdict'.src \in vpa_verification_queue
        /\ now > ReleaseTime(quarantine_list, verdict'.src)) =>
           /\ StillQuarantined(verdict'.src)
           /\ ReleaseTime(quarantine_list', verdict'.src) =
                  ReleaseTime(quarantine_list, verdict'.src) + PENALTY
           /\ sent' = <<>>
           /\ verdict'.src \notin vpa_verification_queue']_vars

(* C31: after a failed verification trial the source's timer is running
   again: the extended release time is strictly later than the time of the
   failed trial, however late the trial took place.  A failed trial is the
   handler step that changes the release time of a source that was and
   stays quarantined. *)
C31_FailedTrialRearmsTimer ==
    [][(/\ variant \in {"logic", "final"}
        /\ ~Tick
        /\ Quarantined(verdict'.src)
        /\ StillQuarantined(verdict'.src)
        /\ ReleaseTime(quarantine_list', verdict'.src) #
               ReleaseTime(quarantine_list, verdict'.src)) =>
           /\ verdict'.outcome = "dropped"
           /\ ReleaseTime(quarantine_list', verdict'.src) > now]_vars

(* C34: in every reachable state of MycoBarrierLogic the sources awaiting
   verification are quarantined sources: vpa_verification_queue is a subset
   of the keys of quarantine_list, so no source stays flagged once its
   Quarantine Record has been removed. *)
C34_PendingAreQuarantined ==
    variant = "logic" =>
        \A m \in vpa_verification_queue : Quarantined(m)

(* C34's case: a source whose record was removed by a successful trial has
   been isolated again and is awaiting verification once more. *)
C34_Witness ==
    /\ variant = "logic"
    /\ \E m \in released : m \in vpa_verification_queue /\ Quarantined(m)

----------------------------------------------------------------------------
(* Rule priorities, over all the controllers *)

(* The handshake of a quarantine controller: the table-miss rule is sent to
   the switch.  Switches complete it before the first packet-in. *)
Quarantine_switch_features_handler(d) ==
    /\ verdict = NoVerdict
    /\ sent' = <<add_flow(d, 0, Match(0, ANY, ANY), <<Output(OFPP_CONTROLLER)>>,
                          0, 0, 0)>>
    /\ UNCHANGED <<qonly, mac_to_port, ovars>>

(* One of the controllers is run: a quarantine controller (logic, final,
   v2) or the orchestrator (gpt). *)
PriorityInit ==
    /\ variant \in {"logic", "final", "v2", "gpt"}
    /\ QStart
    /\ variant = "gpt" => flooder = <<1, SERVER_MAC>>

PriorityNext ==
    \/ variant = "gpt" /\ Next
    \/ variant # "gpt" /\ QNext
    \/ /\ variant # "gpt"
       /\ \E d \in Switches : Quarantine_switch_features_handler(d)
       /\ UNCHANGED burst_sent

PrioritySpec == PriorityInit /\ [][PriorityNext]_vars

(* C35: rule priorities are strictly ordered so that mitigation overrides
   forwarding.  Quarantine controllers: the table-miss rule has priority 0,
   a forwarding rule priority 1 (50 for the load-balancing rule of the final
   controller), a drop rule priority 100, and only drop rules sit at 100.
   Orchestrator: the table-miss rule has priority 0, a learned forwarding
   rule 10, an episode rule 300 (Isolate), 320 (Sandbox) or 340 (Proxy-Swap),
   and only episode rules, which carry a cookie, sit at 300 or above. *)
C35_PriorityOrder ==
    /\ variant # "gpt" =>
           \A i \in 1..Len(sent) :
               sent[i].type = "flow_mod" =>
                   /\ sent[i].priority \in {0, 1, 50, 100}
                   /\ variant = "logic" => sent[i].priority \in {0, 1, 100}
                   /\ sent[i].priority = 0 <=>
                          sent[i].actions = <<Output(OFPP_CONTROLLER)>>
                   /\ sent[i].priority = 100 <=> sent[i].actions = <<>>
    /\ variant = "gpt" =>
           \A d \in Switches : \A r \in flows[d] :
               /\ r.priority \in {0, 10, 300, 320, 340}
               /\ r.priority = 0 <=> r = TableMiss
               /\ r.priority = 10 <=>
                      /\ r.cookie = 0
                      /\ \E p \in Ports : r.actions = <<Output(p)>>
               /\ r.priority >= 300 <=> r.cookie # 0
               /\ r.priority = 300 <=> r.actions = <<>>

(* C35's case: one switch of the orchestrator holds the table-miss rule, a
   learned forwarding rule and a rule of an active episode at once. *)
C35_Witness ==
    /\ variant = "gpt"
    /\ active_event # <<>>
    /\ \E d \in Switches :
           /\ TableMiss \in flows[d]
           /\ \E r \in flows[d] : r.priority = 10
           /\ \E r \in flows[d] :
                  r.priority >= 300 /\ r.cookie = active_event[1].cookie

----------------------------------------------------------------------------
(* The return traffic of a Proxy-Swap episode *)

(* packet_in for a frame that the outbound rule r of a Proxy-Swap episode on
   switch d hands to the controller: a frame of the decoy that entered on
   the decoy's port, with its source rewritten by r's actions to the
   target's address; msg.match["in_port"] is still the decoy's port.  The
   frame is an IP frame, so it passes the ARP test and reaches the learning
   code.  Its destination is a client outside Macs, whose port the model
   never learns: the frame is flooded and no forwarding rule is installed. *)
packet_in_resubmitted(d, r) ==
    /\ d \in datapaths
    /\ r \in flows[d]
    /\ r.priority = 340
    /\ r.match.in_port # 0
    /\ r.actions[Len(r.actions)] = Output(OFPP_CONTROLLER)
    /\ frames_left > 0
    /\ frames_left' = frames_left - 1
    /\ LET in_port == r.match.in_port
           src == r.actions[2].value
       IN  /\ mac_to_port' = [mac_to_port EXCEPT ![d][src] = in_port]
           /\ sent' = <<PacketOut(d, OFP_NO_BUFFER, in_port,
                                  <<Output(OFPP_FLOOD)>>, TRUE)>>
    /\ UNCHANGED <<flows, datapaths, active_event, event_lock, calls,
                   auto_end_tasks, event_log, response, clock_ms,
                   requests_left, cleanup_removed>>
    /\ UNCHANGED <<qonly, gvars, evars>>

SwapReturnNext ==
    \/ \E d \in Switches : switch_features_handler(d)
    \/ \E f \in OrchFrames : packet_in(f)
    \/ \E d \in Switches : \E r \in flows[d] : packet_in_resubmitted(d, r)
    \/ \E c \in CallIds, body \in Bodies : post_event(c, body)
    \/ \E c \in CallIds : trigger_event_enter(c)
    \/ \E c \in CallIds, fault \in {"none", "log", "apply"} :
           trigger_event_start(c, fault)
    \/ \E fault \in {"none", "log"} : _auto_end_event(fault)

SwapReturnSpec == Init /\ [][SwapReturnNext]_vars

(* C36: handling the frames that the Proxy-Swap outbound rule hands to the
   controller never records the target's link-layer address at the decoy's
   port: the L2 entry of a host's address on the host's switch is absent or
   the port on which the host itself is seen. *)
C36_TargetKeepsItsPort ==
    \A h \in Hosts :
        h.mac \in Macs => mac_to_port[h.dpid][h.mac] \in {0, h.port}

----------------------------------------------------------------------------
(* Reintegration under fairness *)

(* MycoBarrierLogic with a clock that keeps running, a quarantined source
   whose frames keep arriving once its timer has run out, and a verification
   trial that does not fail forever: random.choice returns True in some of the
   trials that take place. *)
Expired(m) ==
    Quarantined(m) /\ now > ReleaseTime(quarantine_list, m)
LateFrame(m) ==
    /\ Expired(m)
    /\ m \notin vpa_verification_queue
    /\ \E f \in Frames, is_clean \in BOOLEAN :
           /\ f.src = m
           /\ f.ethertype = ETH_TYPE_IP
           /\ PacketIn(f, is_clean)
           /\ UNCHANGED burst_sent
CleanTrial(m) ==
    /\ Expired(m)
    /\ m \in vpa_verification_queue
    /\ \E f \in Frames :
           /\ f.src = m
           /\ f.ethertype = ETH_TYPE_IP
           /\ PacketIn(f, TRUE)
           /\ UNCHANGED burst_sent

ReintegrationFairSpec ==
    /\ LearningInit
    /\ [][QNext]_vars
    /\ WF_vars(Tick /\ UNCHANGED burst_sent)
    /\ \A m \in Macs : WF_vars(LateFrame(m)) /\ SF_vars(CleanTrial(m))

(* C37: a quarantined source that keeps sending is eventually reintegrated:
   its Quarantine Record is removed and a frame from it is forwarded. *)
C37_EventuallyReintegrated ==
    \A m \in Macs :
        (variant = "logic" /\ Quarantined(m)) ~>
            (/\ ~Quarantined(m)
             /\ m \in released
             /\ verdict.src = m
             /\ verdict.outcome = "forwarded")

(* C37's case: the frame of a source that had been isolated has just passed
   its verification trial and has been forwarded. *)
C37_Witness ==
    /\ variant = "logic"
    /\ verdict.outcome = "forwarded"
    /\ verdict.src \in released
    /\ verdict.src \in exceeded
    /\ ~Quarantined(verdict.src)
    /\ vpa_verification_queue = {}
    /\ Len(sent) > 0

----------------------------------------------------------------------------
(* MycoBoxController (myco_box_controller.py): the blacklist controller *)

\* Faulty variant: a source that is blacklisted already is blocked again.
block_host_repeated(bl, dpid, src_mac) ==
    [blacklist |-> bl \cup {src_mac},
     sent |-> <<add_flow(dpid, 100, Match(0, src_mac, ANY), <<>>, 0, 0, 0)>>]
(* block_host: unless the source is blacklisted already, add it and send
   the drop rule, which has neither an idle nor a hard timeout. *)
block_host(bl, dpid, src_mac) ==
    IF src_mac \in bl
    THEN [blacklist |-> bl, sent |-> <<>>]
    ELSE [blacklist |-> bl \cup {src_mac},
          sent |-> <<add_flow(dpid, 100, Match(0, src_mac, ANY), <<>>, 0, 0, 0)>>]

(* The forwarding step: as StandardForward, with a forwarding rule that has
   no idle timeout. *)
BoxForward(f) ==
    LET table == LearnedPorts(f)
        known == table[f.dpid][f.dst] # 0
        out_port == IF known THEN table[f.dpid][f.dst] ELSE OFPP_FLOOD
        actions == <<Output(out_port)>>
        match == Match(f.in_port, f.src, f.dst)
        out == PacketOut(f.dpid, f.buffer_id, f.in_port, actions,
                         f.buffer_id = OFP_NO_BUFFER)
    IN  IF known
        THEN IF f.buffer_id # OFP_NO_BUFFER
             THEN <<add_flow(f.dpid, 1, match, actions, f.buffer_id, 0, 0)>>
             ELSE <<add_flow(f.dpid, 1, match, actions, 0, 0, 0), out>>
        ELSE <<out>>

(* _packet_in_handler: count the frame, block the source when the count
   after the increment exceeds the threshold, drop the frame of a
   blacklisted source, learn and forward any other frame.  The count of a
   flooding source keeps growing within a window: MaxCount caps it. *)
Box_packet_in_handler(f) ==
    /\ variant = "box"
    /\ UNCHANGED <<variant, quarantine_list, vpa_verification_queue,
                   server_load_counter>>
    /\ IF f.ethertype = ETH_TYPE_LLDP
       THEN /\ sent' = <<>>
            /\ verdict' = Returned("ignored", f)
            /\ UNCHANGED <<start_time, packet_counts, blacklist, mac_to_port>>
       ELSE LET counts == CountsAfter(f.dpid, f.src)
            IN  /\ counts[f.dpid][f.src] <= MaxCount
                /\ start_time' = IF RateReset THEN now ELSE start_time
                /\ packet_counts' = counts
                /\ IF counts[f.dpid][f.src] > THRESHOLD
                   THEN LET b == block_host(blacklist, f.dpid, f.src)
                        IN  /\ blacklist' = b.blacklist
                            /\ sent' = b.sent
                            /\ verdict' = Returned("isolated", f)
                            /\ UNCHANGED mac_to_port
                   ELSE IF f.src \in blacklist
                   THEN /\ sent' = <<>>
                        /\ verdict' = Returned("dropped", f)
                        /\ UNCHANGED <<blacklist, mac_to_port>>
                   ELSE /\ mac_to_port' = LearnedPorts(f)
                        /\ sent' = BoxForward(f)
                        /\ verdict' = Returned("forwarded", f)
                        /\ UNCHANGED blacklist

BoxPacketIn(f) ==
    /\ Arrives(f)
    /\ Box_packet_in_handler(f)
    /\ UNCHANGED <<ovars, released, burst_sent>>

BoxInit == QStart /\ variant = "box"

BoxNext ==
    \/ Tick /\ UNCHANGED burst_sent
    \/ \E f \in Frames : BoxPacketIn(f)

BoxSpec == BoxInit /\ [][BoxNext]_vars

(* C39: in MycoBoxController the blacklist only grows.  A source is added by
   the frame whose count after the increment exceeds the threshold, together
   with a priority-100 drop rule without idle or hard timeout, and is never
   removed; the frames of a blacklisted source are not learned, forwarded or
   flooded, and a further threshold crossing sends no second drop rule.  A
   step that is not the passing of a second is a handler call for a frame
   of verdict'.src. *)
C39_BlacklistOnlyGrows ==
    [][/\ blacklist \subseteq blacklist'
       /\ (~Tick /\ verdict'.outcome # "ignored") =>
              LET m == verdict'.src
                  d == verdict'.dpid
              IN  /\ m \in blacklist' <=>
                         (m \in blacklist \/ packet_counts'[d][m] > THRESHOLD)
                  /\ blacklist' \subseteq blacklist \cup {m}
                  /\ (m \notin blacklist /\ m \in blacklist') =>
                         sent' = <<[type |-> "flow_mod", dpid |-> d,
                                    priority |-> 100,
                                    match |-> Match(0, m, ANY),
                                    actions |-> <<>>,
                                    buffer_id |-> OFP_NO_BUFFER,
                                    idle_timeout |-> 0, hard_timeout |-> 0,
                                    in_port |-> 0, data |-> FALSE]>>
                  /\ m \in blacklist =>
                         /\ sent' = <<>>
                         /\ mac_to_port' = mac_to_port]_vars

(* C39's case: a blacklisted source has crossed the threshold a second time,
   in a later window, and no message was sent. *)
C39_Witness ==
    /\ variant = "box"
    /\ verdict.outcome = "isolated"
    /\ verdict.src \in blacklist
    /\ packet_counts[verdict.dpid][verdict.src] = THRESHOLD + 1
    /\ start_time = now
    /\ sent = <<>>

====
